---- MODULE Spec2Model ----
(***************************************************************************)
(* NetworkControllerManager: the failover manager over the OpenDaylight,   *)
(* pfSense and MikroTik adapters.                                          *)
(*                                                                         *)
(* Granularity.  The manager is single-threaded asynchronous code.  Every  *)
(* `await` of an adapter operation (connect, healthCheck, disconnect, a    *)
(* delegated query) is a suspension point: the adapter answers in a later  *)
(* event-loop turn, and other operations of the manager may run in         *)
(* between.  One action of the model is therefore the code that runs from  *)
(* one adapter answer to the next adapter invocation (or to the end of the *)
(* operation).  The return of selectActiveController() into its caller is  *)
(* a continuation on an already settled promise and runs in the same       *)
(* microtask drain as the assignment before it, so it belongs to the same  *)
(* action.                                                                 *)
(*                                                                         *)
(* Adapters are referred to by their index in `controllers`; index 0 is    *)
(* the null active pointer.                                                *)
(*                                                                         *)
(* Backends.  What an adapter's healthCheck() answers is chosen afresh at  *)
(* every answer; an adapter in `steady` has a backend that has recovered   *)
(* for good and answers true from then on.                                 *)
(*                                                                         *)
(* Adapters.  The three adapter classes are modelled a second time on      *)
(* their own, below the manager: there an adapter object is called         *)
(* directly and its requests to the device are answered by a transport.    *)
(* The manager sees an adapter only through the answers of its promises.   *)
(***************************************************************************)
EXTENDS Integers, Sequences, FiniteSets, Bags, TLC

VARIABLES
  config,            \* this.config: the sub-configurations the manager was built from
  controllers,       \* this.controllers: the adapter list built by the constructor
  activeController,  \* this.activeController: an index of controllers, 0 = null
  failoverInterval,  \* this.failoverInterval: "armed" while setInterval is live
  conn,              \* the connect() call in progress, if any
  ticks,             \* the timer callbacks (checkAndFailover) in flight: a bag
  disc,              \* the disconnect() call in progress, if any
  call,              \* the delegated call in progress, if any
  mtClient,          \* MikroTikController.client has been created
  status,            \* the getAllControllersStatus() call in progress, if any
  steady,            \* the adapters whose backend answers healthy from now on
  ad,                \* an adapter used on its own: its call in progress, if any
  memo,              \* a selection run that ended earlier, kept for comparison
  ev                 \* what the last step returned to its caller (observation)

vars == <<config, controllers, activeController, failoverInterval, conn, ticks,
          disc, call, mtClient, status, steady, ad, memo, ev>>

(***************************************************************************)
(* Bounds                                                                  *)
(***************************************************************************)
\* timer callbacks that may be in flight at once (a tick that outlasts the
\* poll interval overlaps the next one)
MaxTicks == 1

\* backends configured where the life cycle runs beside status queries
MaxBackendsStatus == 2

\* backends configured where the life cycle runs beside status queries and
\* delegated calls at once
MaxBackendsAll == 1

\* ports a QoS policy may list
MaxPorts == 2

\* interfaces a router or a firewall may list
MaxInterfaces == 2

\* addresses the router may list for one interface
MaxAddresses == 2

\* connections a router or a firewall may list
MaxConnections == 1

\* topologies, and nodes in all of them, the SDN controller may report
MaxTopologies == 2
MaxDevices == 2

\* flows a flow table may list
MaxFlows == 1

(***************************************************************************)
(* Constants of the program                                                *)
(***************************************************************************)
\* the adapters in the order initializeControllers() pushes them
Kinds == <<"OpenDaylightController", "PfSenseController", "MikroTikController">>

\* what an adapter's healthCheck() promise can do
ProbeResults == {"true", "false", "throw"}

\* what an adapter's connect() promise can do
ConnectResults == {"ok", "fail"}

\* the delegated operations of the manager
DelegatedOps == {"getDevices", "getFlows", "getStats", "applyQoSPolicy", "healthCheck"}

\* policy objects a caller may pass, results and errors an adapter may answer
Policies == {"p1", "p2"}
Values == {"v1", "v2"}
Errors == {"e1"}

NoPolicy == "none"

N == Len(controllers)

None == 0

(***************************************************************************)
(* Construction                                                            *)
(***************************************************************************)
\* a plausible slip: an empty configuration falls back to a default backend
InitializeControllers_Default(cfg) ==
  IF cfg = {} THEN <<Kinds[1]>> ELSE SelectSeq(Kinds, LAMBDA k : k \in cfg)

\* initializeControllers(): one adapter per sub-config present, in fixed order
InitializeControllers(cfg) ==
  SelectSeq(Kinds, LAMBDA k : k \in cfg)

Configs == SUBSET {Kinds[i] : i \in DOMAIN Kinds}

IdleConn == [pc |-> "idle", idx |-> 0, errors |-> <<>>, invoked |-> <<>>,
             settled |-> <<>>, sel |-> [probed |-> <<>>, healthy |-> {}]]

IdleDisc == [pc |-> "idle", invoked |-> <<>>]

IdleCall == [pc |-> "idle", op |-> "none", arg |-> NoPolicy, invoked |-> <<>>,
             activeAtCall |-> None]

Quiet == [op |-> "none", out |-> "none"]

\* no adapter is used on its own
NoAdapter == [kind |-> "none", pc |-> "idle"]

\* no selection run has been kept
NoMemo == [kept |-> FALSE]

IdleStatus == [pc |-> "idle", invoked |-> <<>>, pending |-> {}, answers |-> <<>>,
               entries |-> <<>>]

Init ==
  /\ config \in Configs
  /\ controllers = InitializeControllers(config)
  /\ activeController = None
  /\ failoverInterval = "armed"
  /\ conn = IdleConn
  /\ ticks = EmptyBag
  /\ disc = IdleDisc
  /\ call = IdleCall
  /\ mtClient = FALSE
  /\ status = IdleStatus
  /\ steady = {}
  /\ ad = NoAdapter
  /\ memo = NoMemo
  /\ ev = Quiet

(***************************************************************************)
(* selectActiveController()                                                *)
(***************************************************************************)
NewSel == [probed |-> <<>>, healthy |-> {}]

\* a plausible slip: the loop starts at the second adapter
SelectStart_FromSecond(n) ==
  IF n = 0
    THEN [kind |-> "throw", idx |-> 0, sel |-> NewSel]
    ELSE IF n = 1
      THEN [kind |-> "probe", idx |-> 1, sel |-> [probed |-> <<1>>, healthy |-> {}]]
      ELSE [kind |-> "probe", idx |-> 2, sel |-> [probed |-> <<2>>, healthy |-> {}]]

\* entering the for-loop: the first adapter is probed, or the loop is empty
\* and the function throws at once
SelectStart(n) ==
  IF n = 0
    THEN [kind |-> "throw", idx |-> 0, sel |-> NewSel]
    ELSE [kind |-> "probe", idx |-> 1, sel |-> [probed |-> <<1>>, healthy |-> {}]]

\* a plausible slip: the loop assigns but does not return at the first healthy
\* adapter, so the last healthy one wins
SelectStep_LastHealthy(sel, idx, r, n) ==
  LET h == IF r = "true" THEN sel.healthy \cup {idx} ELSE sel.healthy IN
  IF idx < n
    THEN [kind |-> "probe", idx |-> idx + 1,
          sel |-> [probed |-> Append(sel.probed, idx + 1), healthy |-> h]]
    ELSE IF h # {}
      THEN [kind |-> "selected", idx |-> CHOOSE i \in h : \A j \in h : j <= i,
            sel |-> [probed |-> sel.probed, healthy |-> h]]
      ELSE [kind |-> "throw", idx |-> idx, sel |-> [probed |-> sel.probed, healthy |-> h]]

\* a plausible slip: the loop runs over indices and selects the element after
\* the one probed
SelectStep_OffByOne(sel, idx, r, n) ==
  IF r = "true"
    THEN [kind |-> "selected", idx |-> idx + 1,
          sel |-> [probed |-> sel.probed, healthy |-> sel.healthy \cup {idx}]]
    ELSE IF idx < n
      THEN [kind |-> "probe", idx |-> idx + 1,
            sel |-> [probed |-> Append(sel.probed, idx + 1), healthy |-> sel.healthy]]
      ELSE [kind |-> "throw", idx |-> idx, sel |-> sel]

\* a plausible slip: a healthy probe keeps the adapter that is active already
\* and selects the probed one only when none is
SelectStep_Sticky(sel, idx, r, n) ==
  IF r = "true"
    THEN [kind |-> "selected",
          idx |-> IF activeController = None THEN idx ELSE activeController,
          sel |-> [probed |-> sel.probed, healthy |-> sel.healthy \cup {idx}]]
    ELSE IF idx < n
      THEN [kind |-> "probe", idx |-> idx + 1,
            sel |-> [probed |-> Append(sel.probed, idx + 1), healthy |-> sel.healthy]]
      ELSE [kind |-> "throw", idx |-> idx, sel |-> sel]

\* a plausible slip: the probe is not wrapped in try/catch, so a probe that
\* throws ends the run
SelectStep_ThrowAborts(sel, idx, r, n) ==
  IF r = "true"
    THEN [kind |-> "selected", idx |-> idx,
          sel |-> [probed |-> sel.probed, healthy |-> sel.healthy \cup {idx}]]
    ELSE IF idx < n /\ r # "throw"
      THEN [kind |-> "probe", idx |-> idx + 1,
            sel |-> [probed |-> Append(sel.probed, idx + 1), healthy |-> sel.healthy]]
      ELSE [kind |-> "throw", idx |-> idx, sel |-> sel]

\* a plausible slip: when no probe answered true the loop falls back to the
\* first adapter instead of throwing
SelectStep_FallsBack(sel, idx, r, n) ==
  IF r = "true"
    THEN [kind |-> "selected", idx |-> idx,
          sel |-> [probed |-> sel.probed, healthy |-> sel.healthy \cup {idx}]]
    ELSE IF idx < n
      THEN [kind |-> "probe", idx |-> idx + 1,
            sel |-> [probed |-> Append(sel.probed, idx + 1), healthy |-> sel.healthy]]
      ELSE [kind |-> "selected", idx |-> 1, sel |-> sel]

\* one iteration of the loop, after the probe of adapter idx answered r:
\* true selects it and returns; otherwise the next adapter is probed, or the
\* loop ends and the function throws 'No healthy controllers available'
SelectStep(sel, idx, r, n) ==
  IF r = "true"
    THEN [kind |-> "selected", idx |-> idx,
          sel |-> [probed |-> sel.probed, healthy |-> sel.healthy \cup {idx}]]
    ELSE IF idx < n
      THEN [kind |-> "probe", idx |-> idx + 1,
            sel |-> [probed |-> Append(sel.probed, idx + 1), healthy |-> sel.healthy]]
      ELSE [kind |-> "throw", idx |-> idx, sel |-> sel]

\* what the healthCheck() of adapter i can answer: anything, and true only
\* once its backend has become steadily healthy
ProbeAnswers(i) == IF i \in steady THEN {"true"} ELSE ProbeResults

\* what a step of a selection run shows when the run goes on: the adapter
\* whose probe answered, the answer, and what the loop did next
ProbeEv(who, r, st) ==
  [op |-> "probe", who |-> who, res |-> r, then |-> st.kind, next |-> st.idx]

(***************************************************************************)
(* connect()                                                               *)
(***************************************************************************)
NoHealthyError == [text |-> "No healthy controllers available", causes |-> <<>>]

FailedToConnectError(errors) ==
  [text |-> "Failed to connect to any controllers", causes |-> errors]

\* the adapter's own client object comes into being when its connect() runs
ClientAfterInvoke(i) == mtClient \/ controllers[i] = "MikroTikController"

\* a plausible slip: every adapter's connect() is started at once
ConnectInvoke_All(n) == [i \in 1..n |-> i]

\* the adapters whose connect() is invoked before connect() first suspends
ConnectInvoke(n) == <<1>>

\* a plausible slip: the loop stops at the first adapter whose connect() fails
ConnectSettled_Break(c, r, n) ==
  LET errs == IF r = "fail" THEN Append(c.errors, c.idx) ELSE c.errors
      done == Append(c.settled, c.idx) IN
  IF c.idx < n /\ r = "ok"
    THEN [c EXCEPT !.idx = c.idx + 1, !.errors = errs, !.settled = done,
                   !.invoked = Append(c.invoked, c.idx + 1)]
    ELSE [c EXCEPT !.pc = "select", !.idx = SelectStart(n).idx, !.errors = errs,
                   !.settled = done, !.sel = SelectStart(n).sel]

\* a plausible slip: selection starts as soon as the first adapter's
\* connect() has settled
ConnectSettled_Eager(c, r, n) ==
  LET errs == IF r = "fail" THEN Append(c.errors, c.idx) ELSE c.errors
      done == Append(c.settled, c.idx) IN
  [c EXCEPT !.pc = "select", !.idx = SelectStart(n).idx, !.errors = errs,
            !.settled = done, !.sel = SelectStart(n).sel]

\* the connect() of adapter c.idx settled with r: a failure is pushed onto
\* errors, then the next adapter's connect() is invoked or, after the last
\* one, selectActiveController() starts
ConnectSettled(c, r, n) ==
  LET errs == IF r = "fail" THEN Append(c.errors, c.idx) ELSE c.errors
      done == Append(c.settled, c.idx) IN
  IF c.idx < n
    THEN [c EXCEPT !.idx = c.idx + 1, !.errors = errs, !.settled = done,
                   !.invoked = Append(c.invoked, c.idx + 1)]
    ELSE [c EXCEPT !.pc = "select", !.idx = SelectStart(n).idx, !.errors = errs,
                   !.settled = done, !.sel = SelectStart(n).sel]

\* how connect() ends once selectActiveController() has ended with selKind
ConnectOutcome(selKind, active, errors) ==
  IF selKind = "throw"
    THEN [out |-> "raised", error |-> NoHealthyError]
    ELSE IF active = None
      THEN [out |-> "raised", error |-> FailedToConnectError(errors)]
      ELSE [out |-> "ok", error |-> [text |-> "", causes |-> <<>>]]

\* what the caller of connect() observes when it ends, with the adapter
\* connect() calls and the probes the call made
ConnectEv(c, sel, oc) ==
  [op |-> "connect", out |-> oc.out, error |-> oc.error, errors |-> c.errors,
   invoked |-> c.invoked, settled |-> c.settled, sel |-> sel,
   activeBefore |-> activeController]

ConnectStart ==
  /\ conn.pc = "idle"
  /\ IF N = 0
       THEN /\ conn' = IdleConn
            /\ ev' = ConnectEv(IdleConn, NewSel,
                               ConnectOutcome("throw", activeController, <<>>))
            /\ UNCHANGED mtClient
       ELSE /\ conn' = [IdleConn EXCEPT !.pc = "connect", !.idx = 1,
                                        !.invoked = ConnectInvoke(N)]
            /\ mtClient' = ClientAfterInvoke(1)
            /\ ev' = Quiet
  /\ UNCHANGED <<config, controllers, status, steady, ad, memo>>
  /\ UNCHANGED <<activeController, failoverInterval, ticks, disc, call>>

ConnectSettle ==
  /\ conn.pc = "connect"
  /\ \E r \in ConnectResults :
       /\ conn' = ConnectSettled(conn, r, N)
       /\ mtClient' = IF conn'.pc = "connect" THEN ClientAfterInvoke(conn'.idx)
                      ELSE mtClient
  /\ ev' = Quiet
  /\ UNCHANGED <<config, controllers, status, steady, ad, memo>>
  /\ UNCHANGED <<activeController, failoverInterval, ticks, disc, call>>

ConnectSelectReturn ==
  /\ conn.pc = "select"
  /\ \E r \in ProbeAnswers(conn.idx) :
       LET st == SelectStep(conn.sel, conn.idx, r, N) IN
       IF st.kind = "probe"
         THEN /\ conn' = [conn EXCEPT !.idx = st.idx, !.sel = st.sel]
              /\ ev' = ProbeEv(conn.idx, r, st)
              /\ UNCHANGED activeController
         ELSE /\ activeController' = IF st.kind = "selected" THEN st.idx
                                     ELSE activeController
              /\ conn' = IdleConn
              /\ ev' = ConnectEv(conn, st.sel,
                                 ConnectOutcome(st.kind, activeController', conn.errors))
  /\ UNCHANGED <<config, controllers, status, steady, ad, memo>>
  /\ UNCHANGED <<failoverInterval, ticks, disc, call, mtClient>>

(***************************************************************************)
(* The failover timer: startFailoverCheck() and checkAndFailover()         *)
(***************************************************************************)
\* a plausible slip: the constructor does not start the timer
TimerFires_Never == FALSE

\* setInterval fires the callback while the interval has not been cleared
TimerFires == failoverInterval = "armed"

\* what a step of the timer callback shows: whether the step is the interval
\* firing, how the callback ended (if it did), the answer of the probe of the
\* active adapter, the selection runs started, the probes of the last run,
\* and the active pointer and the delegated call in flight before the step
TickEv(t, fired, out, sel) ==
  [op |-> "tick", fired |-> fired, out |-> out, checkRes |-> t.checkRes,
   runs |-> t.runs, sel |-> sel, activeBefore |-> activeController,
   callBefore |-> call]

NewTick == [pc |-> "start", idx |-> 0, phase |-> "none", checkRes |-> "none",
            runs |-> 0, sel |-> NewSel]

Replace(t, u) == (ticks (-) SetToBag({t})) (+) SetToBag({u})

Remove(t) == ticks (-) SetToBag({t})

\* selectActiveController() threw inside checkAndFailover(): the call in the
\* try block is caught and selection runs once more from the catch block;
\* the calls at the top of the function and in the catch block are not caught
AfterSelectThrow(t, n) ==
  IF t.phase = "inTry"
    THEN [kind |-> "retry",
          tick |-> [t EXCEPT !.phase = "inCatch", !.runs = t.runs + 1,
                             !.idx = SelectStart(n).idx, !.sel = SelectStart(n).sel]]
    ELSE [kind |-> "uncaught", tick |-> t]

\* a plausible slip: every tick re-runs selection, whatever the probe of the
\* active adapter answered
CheckNeedsFailover_Always(r) == TRUE

\* if (!isHealthy), and the catch block: anything but true starts selection
CheckNeedsFailover(r) == r # "true"

\* the interval fires: with no active adapter selection runs directly,
\* otherwise the active adapter is probed
TickStart ==
  /\ TimerFires
  /\ BagCardinality(ticks) < MaxTicks
  /\ IF activeController = None
       THEN LET st == SelectStart(N)
                t  == [NewTick EXCEPT !.pc = "select", !.idx = st.idx,
                                      !.phase = "direct", !.runs = 1, !.sel = st.sel]
            IN IF st.kind = "throw"
                 THEN /\ ticks' = ticks
                      /\ ev' = TickEv(t, TRUE, "uncaught", st.sel)
                 ELSE /\ ticks' = ticks (+) SetToBag({t})
                      /\ ev' = TickEv(t, TRUE, "pending", st.sel)
       ELSE LET t == [NewTick EXCEPT !.pc = "check", !.idx = activeController,
                                     !.phase = "check"]
            IN /\ ticks' = ticks (+) SetToBag({t})
               /\ ev' = TickEv(t, TRUE, "pending", NewSel)
  /\ UNCHANGED <<config, controllers, status, steady, ad, memo>>
  /\ UNCHANGED <<activeController, failoverInterval, conn, disc, call,
                 mtClient>>

\* the probe of the adapter that was active when the tick began answers
TickCheckReturn ==
  /\ \E t \in BagToSet(ticks) : \E r \in ProbeAnswers(t.idx) :
       /\ t.pc = "check"
       /\ IF ~CheckNeedsFailover(r)
            THEN /\ ticks' = Remove(t)
                 /\ ev' = TickEv([t EXCEPT !.checkRes = r], FALSE, "healthy", NewSel)
            ELSE /\ ticks' = Replace(t, [t EXCEPT !.pc = "select",
                                           !.idx = SelectStart(N).idx,
                                           !.phase = IF r = "false" THEN "inTry"
                                                     ELSE "inCatch",
                                           !.checkRes = r, !.runs = 1,
                                           !.sel = SelectStart(N).sel])
                 /\ ev' = Quiet
  /\ UNCHANGED <<config, controllers, status, steady, ad, memo>>
  /\ UNCHANGED <<activeController, failoverInterval, conn, disc, call,
                 mtClient>>

\* a probe of the tick's selection run answers
TickSelectReturn ==
  /\ \E t \in BagToSet(ticks) : \E r \in ProbeAnswers(t.idx) :
       /\ t.pc = "select"
       /\ LET st == SelectStep(t.sel, t.idx, r, N)
              th == AfterSelectThrow([t EXCEPT !.sel = st.sel], N)
          IN CASE st.kind = "selected" ->
                    /\ activeController' = st.idx
                    /\ ticks' = Remove(t)
                    /\ ev' = TickEv(t, FALSE, "selected", st.sel)
               [] st.kind = "probe" ->
                    /\ ticks' = Replace(t, [t EXCEPT !.idx = st.idx, !.sel = st.sel])
                    /\ ev' = ProbeEv(t.idx, r, st)
                    /\ UNCHANGED activeController
               [] st.kind = "throw" /\ th.kind = "retry" ->
                    /\ ticks' = Replace(t, th.tick)
                    /\ ev' = ProbeEv(t.idx, r, st)
                    /\ UNCHANGED activeController
               [] OTHER ->
                    /\ ticks' = Remove(t)
                    /\ ev' = TickEv(t, FALSE, "uncaught", st.sel)
                    /\ UNCHANGED activeController
  /\ UNCHANGED <<config, controllers, status, steady, ad, memo>>
  /\ UNCHANGED <<failoverInterval, conn, disc, call, mtClient>>

(***************************************************************************)
(* disconnect()                                                            *)
(***************************************************************************)
\* a plausible slip: the interval is left running
ClearInterval_Forgotten(timer) == timer

\* clearInterval(this.failoverInterval)
ClearInterval(timer) == "cleared"

\* this.controllers.map(controller => controller.disconnect()): every adapter
DisconnectInvoke(n) == [i \in 1..n |-> i]

\* this.activeController = null
ActiveAfterDisconnect(active) == None

\* MikroTikController.disconnect() awaits client.close() once a client
\* exists; the two REST adapters' disconnect() bodies are empty
DisconnectCanReject ==
  /\ mtClient
  /\ \E i \in 1..N : controllers[i] = "MikroTikController"

DisconnectEv(out) ==
  [op |-> "disconnect", out |-> out, invoked |-> disc.invoked,
   activeBefore |-> activeController]

DisconnectStart ==
  /\ disc.pc = "idle"
  /\ failoverInterval' = ClearInterval(failoverInterval)
  /\ disc' = [pc |-> "awaiting", invoked |-> DisconnectInvoke(N)]
  /\ ev' = Quiet
  /\ UNCHANGED <<config, controllers, status, steady, ad, memo>>
  /\ UNCHANGED <<activeController, conn, ticks, call, mtClient>>

\* Promise.all resolved: every adapter's disconnect() settled without error
DisconnectResolved ==
  /\ disc.pc = "awaiting"
  /\ activeController' = ActiveAfterDisconnect(activeController)
  /\ disc' = IdleDisc
  /\ ev' = DisconnectEv("ok")
  /\ UNCHANGED <<config, controllers, status, steady, ad, memo>>
  /\ UNCHANGED <<failoverInterval, conn, ticks, call, mtClient>>

\* Promise.all rejected: disconnect() ends there, the last line is not run
DisconnectRejected ==
  /\ disc.pc = "awaiting"
  /\ DisconnectCanReject
  /\ disc' = IdleDisc
  /\ ev' = DisconnectEv("raised")
  /\ UNCHANGED <<config, controllers, status, steady, ad, memo>>
  /\ UNCHANGED <<activeController, failoverInterval, conn, ticks, call,
                 mtClient>>

(***************************************************************************)
(* Delegated operations                                                    *)
(***************************************************************************)
NoActiveError == "No active controller available"

\* a plausible slip: the guard is missing
EnsureActiveController_NoCheck(active) == FALSE

\* ensureActiveController(): throws when the pointer is null
EnsureActiveController(active) == active = None

\* a plausible slip: delegation to the first adapter of the list
DelegateTarget_First(active) == 1

\* this.activeController!
DelegateTarget(active) == active

\* a plausible slip: a call whose adapter is no longer the active one is
\* cancelled
DelegateResult_DropsOnSwap(res) ==
  IF call.activeAtCall # activeController THEN NoActiveError ELSE res

\* a plausible slip: the adapter's error is replaced by the manager's own
DelegateResult_Wrapped(res) == IF res \in Errors THEN NoActiveError ELSE res

\* return this.activeController!.op(...): the adapter's promise is the result
DelegateResult(res) == res

\* the argument a caller passes: a policy for applyQoSPolicy, nothing otherwise
Args(op) == IF op = "applyQoSPolicy" THEN Policies ELSE {NoPolicy}

\* the manager state a delegated operation has no business changing
Frame == <<activeController, failoverInterval, conn, ticks, disc>>

\* what the caller of a delegated operation observes when its promise settles:
\* whether that is at the call itself or when the adapter answers, the result,
\* what the adapter answered, how many adapter operations the call invoked,
\* whether the active pointer has moved since the call was made, and the
\* manager state before the step
CallEv(at, out, res, answered, c) ==
  [op |-> "call", at |-> at, out |-> out, result |-> res, answered |-> answered,
   callOp |-> c.op, ninvoked |-> Len(c.invoked), activeBefore |-> activeController,
   swapped |-> c.activeAtCall # activeController, frame |-> Frame]

CallStart ==
  /\ call.pc = "idle"
  /\ \E op \in DelegatedOps : \E p \in Args(op) :
       LET c == [IdleCall EXCEPT !.op = op, !.arg = p,
                                 !.activeAtCall = activeController] IN
       IF EnsureActiveController(activeController)
         THEN /\ call' = IdleCall
              /\ ev' = CallEv("call", "raised", NoActiveError, "none", c)
         ELSE /\ call' = [c EXCEPT !.pc = "inflight",
                            !.invoked = <<[adapter |-> DelegateTarget(activeController),
                                           method |-> op, arg |-> p]>>]
              /\ ev' = Quiet
  /\ UNCHANGED <<config, controllers, status, steady, ad, memo>>
  /\ UNCHANGED <<activeController, failoverInterval, conn, ticks, disc,
                 mtClient>>

\* the adapter's promise settles and the manager's promise settles with it
CallSettle ==
  /\ call.pc = "inflight"
  /\ \E res \in Values \cup Errors :
       ev' = CallEv("settle", IF res \in Errors THEN "raised" ELSE "returned",
                    DelegateResult(res), res, call)
  /\ call' = IdleCall
  /\ UNCHANGED <<config, controllers, status, steady, ad, memo>>
  /\ UNCHANGED <<activeController, failoverInterval, conn, ticks, disc,
                 mtClient>>

(***************************************************************************)
(* Status introspection                                                    *)
(***************************************************************************)
\* a plausible slip: the class of the first configured adapter is reported
ActiveControllerType_First(active) == IF active = None THEN "None" ELSE controllers[1]

\* this.activeController ? this.activeController.constructor.name : 'None'
ActiveControllerType(active) == IF active = None THEN "None" ELSE controllers[active]

\* what the caller of an introspection operation observes: how it ended (if
\* it did), the value returned, the probes the call invoked and what they
\* answered, and the manager state before the step
StatusEv(op, out, result, s) ==
  [op |-> op, out |-> out, result |-> result, invoked |-> s.invoked,
   answers |-> s.answers, frame |-> Frame]

GetActiveControllerType ==
  /\ ev' = StatusEv("getActiveControllerType", "returned",
                    ActiveControllerType(activeController), IdleStatus)
  /\ UNCHANGED <<config, controllers, status, steady, ad, memo>>
  /\ UNCHANGED <<activeController, failoverInterval, conn, ticks, disc, call, mtClient>>

\* this.controllers.map(async controller => ...): the callback runs for every
\* adapter up to its await, so every healthCheck() is invoked at the call
StatusInvoke(n) == [i \in 1..n |-> i]

\* a plausible slip: the entry reports the adapter healthy without looking at
\* the answer
StatusEntry_AlwaysHealthy(i, r, active) ==
  [type |-> controllers[i], healthy |-> TRUE, active |-> i = active]

\* the object literal built when the healthCheck() of adapter i has answered:
\* `active` is evaluated after the await, against the pointer as it is then
StatusEntry(i, r, active) ==
  [type |-> controllers[i], healthy |-> r = "true", active |-> i = active]

\* a plausible slip: a status probe that finds the active adapter unhealthy
\* clears the pointer
ActiveAfterStatusProbe_Clears(active, i, r) ==
  IF i = active /\ r # "true" THEN None ELSE active

\* the status path never assigns this.activeController
ActiveAfterStatusProbe(active, i, r) == active

\* Promise.all keeps the order of this.controllers, whatever the order in
\* which the probes answered
StatusReport(entries, n) == [i \in 1..n |-> entries[i]]

GetAllControllersStatusStart ==
  /\ status.pc = "idle"
  /\ IF N = 0
       THEN /\ status' = IdleStatus
            /\ ev' = StatusEv("getAllControllersStatus", "returned",
                              StatusReport(<<>>, 0), IdleStatus)
       ELSE /\ status' = [IdleStatus EXCEPT !.pc = "awaiting",
                                            !.invoked = StatusInvoke(N),
                                            !.pending = 1..N]
            /\ ev' = StatusEv("getAllControllersStatus", "pending", <<>>,
                              IdleStatus)
  /\ UNCHANGED <<config, controllers, steady, ad, memo>>
  /\ UNCHANGED <<activeController, failoverInterval, conn, ticks, disc, call, mtClient>>

\* the healthCheck() of one adapter answers: its entry is built; a throw
\* rejects Promise.all and with it the call; the last answer returns the report
StatusProbeReturn ==
  /\ status.pc = "awaiting"
  /\ \E i \in status.pending : \E r \in ProbeAnswers(i) :
       LET s == [status EXCEPT
                   !.pending = status.pending \ {i},
                   !.answers = [k \in DOMAIN status.answers \cup {i} |->
                                  IF k = i THEN r ELSE status.answers[k]],
                   !.entries = [k \in DOMAIN status.entries \cup {i} |->
                                  IF k = i THEN StatusEntry(i, r, activeController)
                                           ELSE status.entries[k]]]
       IN /\ activeController' = ActiveAfterStatusProbe(activeController, i, r)
          /\ CASE r = "throw" ->
                    /\ status' = IdleStatus
                    /\ ev' = StatusEv("getAllControllersStatus", "raised", <<>>,
                                      [s EXCEPT !.entries = status.entries])
               [] r # "throw" /\ s.pending = {} ->
                    /\ status' = IdleStatus
                    /\ ev' = StatusEv("getAllControllersStatus", "returned",
                                      StatusReport(s.entries, N), s)
               [] OTHER ->
                    /\ status' = s
                    /\ ev' = StatusEv("getAllControllersStatus", "pending", <<>>,
                                      IdleStatus)
  /\ UNCHANGED <<config, controllers, steady, ad, memo>>
  /\ UNCHANGED <<failoverInterval, conn, ticks, disc, call, mtClient>>

(***************************************************************************)
(* The backends                                                            *)
(***************************************************************************)
\* the backend of an adapter recovers for good: from now on its healthCheck()
\* answers true
BecomesSteady ==
  /\ \E i \in (1..N) \ steady : steady' = steady \cup {i}
  /\ ev' = Quiet
  /\ UNCHANGED <<config, controllers, status, activeController, failoverInterval,
                 conn, ticks, disc, call, mtClient, ad, memo>>

(***************************************************************************)
(* Comparing selection runs                                                *)
(***************************************************************************)
\* the step just taken ended a selection run, of connect() or of a tick
RunEnded ==
  \/ ev.op = "connect"
  \/ ev.op = "tick" /\ ev.out \in {"selected", "uncaught"}

\* the adapter that run chose: the one selectActiveController() assigned to
\* the pointer, or none when it threw
RunChoice ==
  IF ev.out \in {"ok", "selected"} THEN activeController ELSE None

\* the run that has just ended is kept, with the health results it saw (the
\* adapters it probed and the one that answered true), the adapter it chose
\* and the adapter that was active before
Remember ==
  /\ ~memo.kept
  /\ RunEnded
  /\ memo' = [kept |-> TRUE, sel |-> ev.sel, choice |-> RunChoice,
              activeBefore |-> ev.activeBefore]
  /\ ev' = Quiet
  /\ UNCHANGED <<config, controllers, status, steady, ad>>
  /\ UNCHANGED <<activeController, failoverInterval, conn, ticks, disc, call, mtClient>>

\* the selection runs of the timer callbacks in flight started before any
\* selection run that connect() starts from here on: every callback in flight
\* is inside selectActiveController(), the interval is cleared, so that no
\* further callback begins, and connect() is not inside its selection
EarlierRunsInFlight ==
  /\ failoverInterval = "cleared"
  /\ ticks # EmptyBag
  /\ \A t \in BagToSet(ticks) : t.pc = "select"
  /\ conn.pc # "select"

\* that moment is kept: from here on a callback that ends with the number of
\* runs it had is ending a run that began before every later run of connect()
NoteEarlierRuns ==
  /\ ~memo.kept
  /\ EarlierRunsInFlight
  /\ memo' = [kept |-> TRUE, earlier |-> ticks]
  /\ ev' = Quiet
  /\ UNCHANGED <<config, controllers, status, steady, ad>>
  /\ UNCHANGED <<activeController, failoverInterval, conn, ticks, disc, call, mtClient>>

(***************************************************************************)
(* The adapters on their own                                               *)
(*                                                                         *)
(* An adapter object is constructed and called directly, as its unit tests *)
(* do.  The adapter talks to its device through a transport (the RouterOS  *)
(* API session of MikroTikController, the axios client of the other two);  *)
(* every request to the transport is answered later, with data or with a   *)
(* failure.  An operation is written as a function of the answers it has   *)
(* received so far: it says which requests to issue next, or how the       *)
(* operation ends.                                                         *)
(***************************************************************************)
\* the failures a transport request can end with
TransportErrors == {"t1", "t2"}

Unanswered == [state |-> "pending"]

Failure(e) == [state |-> "failed", error |-> [text |-> e]]

Success(d) == [state |-> "ok", data |-> d]

\* throw new Error('Connection failed')
ConnectionFailed == [text |-> "Connection failed"]

\* throw new Error('Not connected to MikroTik router')
NotConnected == [text |-> "Not connected to MikroTik router"]

\* a request handed to the transport: the command or path, the kind of data
\* its answer carries, and the parameters that matter
Request(cmd, what, params) == [cmd |-> cmd, what |-> what, params |-> params]

\* params = {}: no name, no port, no protocol
NoParams == [name |-> "", port |-> <<>>, protocol |-> ""]

NoArg == [none |-> TRUE]

\* what an operation does next: issue requests and wait, return, or raise;
\* a return may leave requests behind that nobody waits for
Await(reqs) == [next |-> "await", send |-> reqs]

Return(v) == [next |-> "return", result |-> v, spawn |-> <<>>]

ReturnSpawning(v, reqs) == [next |-> "return", result |-> v, spawn |-> reqs]

Raise(e) == [next |-> "raise", result |-> e, spawn |-> <<>>]

Undefined == "undefined"

\* no policy application has ended since the last call of another operation
NoLast == [applied |-> FALSE]

\* an adapter object after its constructor
NewAdapter(k) ==
  [kind |-> k, pc |-> "idle", op |-> "none", arg |-> NoArg, sent |-> <<>>,
   got |-> <<>>, connected |-> "never", lookups |-> <<>>, last |-> NoLast]

(***************************************************************************)
(* connect(), disconnect() and healthCheck() of the three adapters         *)
(***************************************************************************)
\* MikroTikController.connect(): the client object is created, then its
\* connect() is awaited; any failure becomes 'Connection failed'
MikroTikConnect(got) ==
  IF got = <<>>
    THEN Await(<<Request("connect", "none", NoParams)>>)
    ELSE IF got[1].state = "ok" THEN Return(Undefined) ELSE Raise(ConnectionFailed)

\* MikroTikController.disconnect(): with a client object its close() is
\* awaited outside any try block
MikroTikDisconnect(client, got) ==
  IF ~client
    THEN Return(Undefined)
    ELSE IF got = <<>>
      THEN Await(<<Request("close", "none", NoParams)>>)
      ELSE IF got[1].state = "ok" THEN Return(Undefined) ELSE Raise(got[1].error)

\* a plausible slip: the catch block of healthCheck() rethrows
HealthCheckAnswer_Rethrows(answer) ==
  IF answer.state = "ok" THEN Return(TRUE) ELSE Raise(answer.error)

\* try { await probe; return true } catch { return false }
HealthCheckAnswer(answer) ==
  IF answer.state = "ok" THEN Return(TRUE) ELSE Return(FALSE)

\* MikroTikController.healthCheck(): executeCommand throws without a client,
\* inside the try block
MikroTikHealthCheck(client, got) ==
  IF ~client
    THEN HealthCheckAnswer(Failure(NotConnected.text))
    ELSE IF got = <<>>
      THEN Await(<<Request("/system/resource/print", "none", NoParams)>>)
      ELSE HealthCheckAnswer(got[1])

\* PfSenseController.connect(), OpenDaylightController.connect(): one GET,
\* any failure becomes 'Connection failed'
HttpConnect(path, got) ==
  IF got = <<>>
    THEN Await(<<Request(path, "none", NoParams)>>)
    ELSE IF got[1].state = "ok" THEN Return(Undefined) ELSE Raise(ConnectionFailed)

\* PfSenseController.disconnect(), OpenDaylightController.disconnect(): an
\* empty body
HttpDisconnect == Return(Undefined)

\* PfSenseController.healthCheck(), OpenDaylightController.healthCheck()
HttpHealthCheck(path, got) ==
  IF got = <<>>
    THEN Await(<<Request(path, "none", NoParams)>>)
    ELSE HealthCheckAnswer(got[1])

PfSenseStatusPath == "/system/status"

OpenDaylightTopologyPath == "/restconf/operational/network-topology:network-topology"

(***************************************************************************)
(* Text and numbers                                                        *)
(***************************************************************************)
DigitChars == <<"0", "1", "2", "3", "4", "5", "6", "7", "8", "9">>

IsDigit(c) == \E i \in DOMAIN DigitChars : DigitChars[i] = c

DigitOf(c) == (CHOOSE i \in DOMAIN DigitChars : DigitChars[i] = c) - 1

\* Number.prototype.toString(): the decimal digits of a non-negative integer
RECURSIVE NumberToString(_)
NumberToString(n) ==
  IF n < 10 THEN <<DigitChars[n + 1]>>
  ELSE Append(NumberToString(n \div 10), DigitChars[(n % 10) + 1])

\* the value of the longest prefix of digits of chars, read from position i
\* on with acc the value read so far
RECURSIVE DigitsValue(_, _, _)
DigitsValue(chars, i, acc) ==
  IF i > Len(chars) \/ ~IsDigit(chars[i]) THEN acc
  ELSE DigitsValue(chars, i + 1, acc * 10 + DigitOf(chars[i]))

\* parseInt() of a text: the number its leading digits spell, NaN when it
\* does not begin with a digit
ParseInt(chars) ==
  IF chars = <<>> \/ ~IsDigit(chars[1])
    THEN [nan |-> TRUE, n |-> 0]
    ELSE [nan |-> FALSE, n |-> DigitsValue(chars, 1, 0)]

(***************************************************************************)
(* applyQoSPolicy()                                                        *)
(***************************************************************************)
\* the ports a policy may list
Ports == {80, 443}

\* policy.ports: absent, or a list of ports
PortLists ==
  {[given |-> FALSE, list |-> <<>>]} \cup
  {[given |-> TRUE, list |-> l] :
     l \in UNION {[1..n -> Ports] : n \in 0..MaxPorts}}

\* policy.protocol: absent, or a protocol name
Protocols == {[given |-> FALSE, text |-> ""], [given |-> TRUE, text |-> "udp"]}

\* the policies a caller may apply
QoSPolicies == [name : {"gold"}, ports : PortLists, protocol : Protocols]

\* policy.protocol || fallback
ProtocolOr(policy, fallback) ==
  IF policy.protocol.given /\ policy.protocol.text # "" THEN policy.protocol.text
  ELSE fallback

\* executeCommand('/queue/simple/add', {name: policy.name, ...})
QueueAdd(policy) ==
  Request("/queue/simple/add", "none",
          [name |-> policy.name, port |-> <<>>, protocol |-> ""])

\* executeCommand('/ip/firewall/mangle/add', {'dst-port': port.toString(),
\* protocol: policy.protocol || 'tcp', ...})
MangleAdd(policy, port) ==
  Request("/ip/firewall/mangle/add", "none",
          [name |-> policy.name, port |-> NumberToString(port),
           protocol |-> ProtocolOr(policy, "tcp")])

\* a plausible slip: the marking rules are added for the ports in reverse
QoSCommands_Reversed(policy) ==
  LET ports == IF policy.ports.given THEN policy.ports.list ELSE <<>> IN
  <<QueueAdd(policy)>> \o
  [i \in 1..Len(ports) |-> MangleAdd(policy, ports[Len(ports) + 1 - i])]

\* a plausible slip: a policy that was applied just before is taken to exist
\* on the router and nothing is sent for it
QoSCommands_SkipsExisting(policy) ==
  LET ports == IF policy.ports.given THEN policy.ports.list ELSE <<>> IN
  IF ad.last.applied /\ ad.last.arg = policy THEN <<>>
  ELSE <<QueueAdd(policy)>> \o [i \in 1..Len(ports) |-> MangleAdd(policy, ports[i])]

\* the commands MikroTikController.applyQoSPolicy() issues when none fails:
\* the queue, then one marking rule per port of policy.ports, if it is there
QoSCommands(policy) ==
  LET ports == IF policy.ports.given THEN policy.ports.list ELSE <<>> IN
  <<QueueAdd(policy)>> \o [i \in 1..Len(ports) |-> MangleAdd(policy, ports[i])]

\* a plausible slip: every command is issued whatever the earlier ones
\* answered, and the first failure is thrown at the end
MikroTikApplyQoSPolicy_CarriesOn(client, policy, got) ==
  LET cmds == QoSCommands(policy)
      failed == {i \in DOMAIN got : got[i].state # "ok"}
  IN
  IF ~client THEN Raise(NotConnected)
  ELSE IF Len(got) < Len(cmds) THEN Await(<<cmds[Len(got) + 1]>>)
  ELSE IF failed # {}
    THEN Raise(got[CHOOSE i \in failed : \A j \in failed : i <= j].error)
  ELSE Return(Undefined)

\* MikroTikController.applyQoSPolicy(): each command is awaited before the
\* next one is issued; the first failure is rethrown
MikroTikApplyQoSPolicy(client, policy, got) ==
  LET cmds == QoSCommands(policy) IN
  IF ~client THEN Raise(NotConnected)
  ELSE IF got # <<>> /\ got[Len(got)].state # "ok" THEN Raise(got[Len(got)].error)
  ELSE IF Len(got) < Len(cmds) THEN Await(<<cmds[Len(got) + 1]>>)
  ELSE Return(Undefined)

\* a plausible slip: the catch block logs the failure and returns
HttpOnce_Swallows(req, got) ==
  IF got = <<>> THEN Await(<<req>>)
  ELSE Return(Undefined)

\* an operation that awaits one request and rethrows its failure
HttpOnce(req, got) ==
  IF got = <<>> THEN Await(<<req>>)
  ELSE IF got[1].state = "ok" THEN Return(Undefined) ELSE Raise(got[1].error)

\* PfSenseController.applyQoSPolicy(): one POST
PfSenseApplyQoSPolicy(policy, got) ==
  HttpOnce(Request("/firewall/traffic_shaper/queue", "none",
                   [name |-> policy.name, port |-> <<>>,
                    protocol |-> ProtocolOr(policy, "any")]), got)

\* OpenDaylightController.applyQoSPolicy(): one PUT
OpenDaylightApplyQoSPolicy(policy, got) ==
  HttpOnce(Request("/restconf/config/opendaylight-inventory:nodes/node/flow",
                   "none", [name |-> policy.name, port |-> <<>>, protocol |-> ""]),
           got)


(***************************************************************************)
(* Values a device reports                                                 *)
(***************************************************************************)
\* a property of a reported object: missing, a text or a number
Missing == [t |-> "missing", chars |-> <<>>, n |-> 0]

Text(chars) == [t |-> "text", chars |-> chars, n |-> 0]

Num(k) == [t |-> "num", chars |-> <<>>, n |-> k]

\* parseInt(v): a number is converted to its text first, a missing property
\* reads as the text 'undefined'
ParseIntOf(v) ==
  CASE v.t = "text" -> ParseInt(v.chars)
    [] v.t = "num" -> ParseInt(NumberToString(v.n))
    [] OTHER -> [nan |-> TRUE, n |-> 0]

\* parseInt(v) || 0: NaN and 0 are falsy
ParseIntOrZero(v) ==
  LET p == ParseIntOf(v) IN IF p.nan \/ p.n = 0 THEN 0 ELSE p.n

\* v || 0 for a property that is missing or a number
NumberOrZero(v) == IF v.t = "num" THEN v.n ELSE 0

\* a plausible slip: the loop assigns instead of adding, so the last element
\* stands for the total
Total_LastOnly(values) ==
  IF values = <<>> THEN 0 ELSE values[Len(values)]

\* a total built by `+=` over a list, from 0
RECURSIVE Total(_)
Total(values) ==
  IF values = <<>> THEN 0 ELSE values[1] + Total(Tail(values))

\* the counters an interface of the router reports (RouterOS answers in text)
RouterCounters == {Missing, Text(<<"x">>), Text(<<"1", "2">>)}

\* the counters an interface of the firewall reports
FirewallCounters == {Missing, Text(<<"x">>), Num(3)}

\* the lists of at most n elements of S
ListsOf(S, n) == UNION {[1..k -> S] : k \in 0..n}

InterfaceNames == {"ether1", "ether2"}

(***************************************************************************)
(* getDevices(), getFlows() and getStats() of the router adapter           *)
(***************************************************************************)
\* the promise an async function returns before it has settled
PendingPromise == [type |-> "promise", text |-> <<>>]

\* a text value
String(chars) == [type |-> "string", text |-> chars]

\* this.getInterfaceIp(iface.name) up to its await: the address query
AddressQuery(name) ==
  Request("/ip/address/print", "addresses",
          [name |-> name, port |-> <<>>, protocol |-> ""])

\* MikroTikController.getDevices(): the interface list is awaited; the map
\* callback stores what getInterfaceIp() returns, which is its promise
MikroTikGetDevices(client, got) ==
  IF ~client THEN Raise(NotConnected)
  ELSE IF got = <<>>
    THEN Await(<<Request("/interface/print", "interfaces", NoParams)>>)
  ELSE IF got[1].state # "ok" THEN Raise(got[1].error)
  ELSE LET ifaces == got[1].data IN
       ReturnSpawning(
         [i \in 1..Len(ifaces) |->
            [name |-> ifaces[i].name, ipAddress |-> PendingPromise,
             status |-> IF ifaces[i].running THEN "online" ELSE "offline"]],
         [i \in 1..Len(ifaces) |-> AddressQuery(ifaces[i].name)])

\* the text before the first '/' of chars: split('/')[0]
RECURSIVE BeforeSlash(_)
BeforeSlash(chars) ==
  IF chars = <<>> \/ chars[1] = "/" THEN <<>>
  ELSE <<chars[1]>> \o BeforeSlash(Tail(chars))

\* getInterfaceIp() after its await:
\* addresses[0]?.address?.split('/')[0] || 'unknown', and 'unknown' on failure
InterfaceIp(answer) ==
  IF answer.state # "ok" THEN <<"unknown">>
  ELSE IF answer.data = <<>> \/ answer.data[1].address.t # "text" THEN <<"unknown">>
  ELSE IF BeforeSlash(answer.data[1].address.chars) = <<>> THEN <<"unknown">>
  ELSE BeforeSlash(answer.data[1].address.chars)

\* MikroTikController.getFlows(): one command, rethrown on failure
MikroTikGetFlows(client, got) ==
  IF ~client THEN Raise(NotConnected)
  ELSE IF got = <<>>
    THEN Await(<<Request("/ip/firewall/connection/print", "connections", NoParams)>>)
  ELSE IF got[1].state # "ok" THEN Raise(got[1].error)
  ELSE Return([i \in 1..Len(got[1].data) |->
                 [id |-> got[1].data[i].id,
                  bytesTransferred |-> ParseIntOrZero(got[1].data[i].bytes)]])

\* the totals of getStats() over the interface list and the connection count
RouterStats(ifaces, count) ==
  [bytesIn |-> Total([i \in 1..Len(ifaces) |-> ParseIntOrZero(ifaces[i].rxByte)]),
   bytesOut |-> Total([i \in 1..Len(ifaces) |-> ParseIntOrZero(ifaces[i].txByte)]),
   packetsIn |-> Total([i \in 1..Len(ifaces) |-> ParseIntOrZero(ifaces[i].rxPacket)]),
   packetsOut |-> Total([i \in 1..Len(ifaces) |-> ParseIntOrZero(ifaces[i].txPacket)]),
   activeConnections |-> Num(ParseIntOrZero(count))]

\* MikroTikController.getStats(): the interface counters, then the
\* connection count, each awaited in turn
MikroTikGetStats(client, got) ==
  IF ~client THEN Raise(NotConnected)
  ELSE IF got = <<>>
    THEN Await(<<Request("/interface/print", "routerCounters", NoParams)>>)
  ELSE IF got[Len(got)].state # "ok" THEN Raise(got[Len(got)].error)
  ELSE IF Len(got) = 1
    THEN Await(<<Request("/ip/firewall/connection/print", "routerCount", NoParams)>>)
  ELSE Return(RouterStats(got[1].data, got[2].data))

(***************************************************************************)
(* getDevices(), getFlows() and getStats() of the firewall adapter         *)
(***************************************************************************)
\* PfSenseController.getDevices(): one GET; ipaddr || 'unknown'
PfSenseGetDevices(got) ==
  IF got = <<>> THEN Await(<<Request("/interface", "firewallInterfaces", NoParams)>>)
  ELSE IF got[1].state # "ok" THEN Raise(got[1].error)
  ELSE Return([i \in 1..Len(got[1].data) |->
                 [name |-> got[1].data[i].name,
                  ipAddress |-> IF got[1].data[i].address.t = "text"
                                     /\ got[1].data[i].address.chars # <<>>
                                  THEN String(got[1].data[i].address.chars)
                                  ELSE String(<<"unknown">>),
                  status |-> IF got[1].data[i].running THEN "online" ELSE "offline"]])

\* PfSenseController.getFlows(): one GET
PfSenseGetFlows(got) ==
  IF got = <<>> THEN Await(<<Request("/diagnostics/states", "connections", NoParams)>>)
  ELSE IF got[1].state # "ok" THEN Raise(got[1].error)
  ELSE Return([i \in 1..Len(got[1].data) |->
                 [id |-> got[1].data[i].id,
                  bytesTransferred |-> ParseIntOrZero(got[1].data[i].bytes)]])

\* the totals of getStats() over interfaceStats.data.data, and
\* states.data.total || 0
FirewallStats(ifaces, total) ==
  [bytesIn |-> Total([i \in 1..Len(ifaces) |-> ParseIntOrZero(ifaces[i].rxByte)]),
   bytesOut |-> Total([i \in 1..Len(ifaces) |-> ParseIntOrZero(ifaces[i].txByte)]),
   packetsIn |-> Total([i \in 1..Len(ifaces) |-> ParseIntOrZero(ifaces[i].rxPacket)]),
   packetsOut |-> Total([i \in 1..Len(ifaces) |-> ParseIntOrZero(ifaces[i].txPacket)]),
   activeConnections |-> Num(NumberOrZero(total))]

\* PfSenseController.getStats(): both GETs are issued at once and awaited
\* with Promise.all, which rejects as soon as one of them fails
PfSenseGetStats(got) ==
  IF got = <<>>
    THEN Await(<<Request("/interface/stats", "firewallCounters", NoParams),
                 Request("/diagnostics/states/summary", "firewallTotal", NoParams)>>)
  ELSE IF \E j \in DOMAIN got : got[j].state = "failed"
    THEN Raise(got[CHOOSE j \in DOMAIN got : got[j].state = "failed"].error)
  ELSE IF \E j \in DOMAIN got : got[j].state = "pending" THEN Await(<<>>)
  ELSE Return(FirewallStats(got[1].data, got[2].data))


(***************************************************************************)
(* getDevices(), getFlows() and getStats() of the SDN adapter              *)
(***************************************************************************)
NodeIds == {"openflow:1", "openflow:2"}

\* the topologies the controller may report: each with or without a node
\* list, with at most MaxDevices nodes in all
Topologies ==
  LET one == {[hasNode |-> FALSE, node |-> <<>>]} \cup
             {[hasNode |-> TRUE, node |-> l] : l \in ListsOf(NodeIds, MaxDevices)}
      count(ts) == Total([i \in 1..Len(ts) |-> Len(ts[i].node)])
  IN {ts \in ListsOf(one, MaxTopologies) : count(ts) <= MaxDevices}

\* topology.flatMap(topo => topo.node?.map(...) || [])
RECURSIVE Devices(_)
Devices(topology) ==
  IF topology = <<>> THEN <<>>
  ELSE [i \in 1..Len(topology[1].node) |-> [id |-> topology[1].node[i]]]
       \o Devices(Tail(topology))

\* OpenDaylightController.getDevices(): one GET, rethrown on failure
OpenDaylightGetDevices(got) ==
  IF got = <<>>
    THEN Await(<<Request(OpenDaylightTopologyPath, "topology", NoParams)>>)
  ELSE IF got[1].state # "ok" THEN Raise(got[1].error)
  ELSE Return(Devices(got[1].data))

\* the GET of one device's flow table, or of its flow statistics
DeviceQuery(what, device) ==
  Request("/restconf/operational/opendaylight-inventory:nodes/node", what,
          [name |-> device.id, port |-> <<>>, protocol |-> ""])

\* a plausible slip: the per-device requests are issued together
DevicesToFetch_AllAtOnce(devices, fetched) ==
  IF fetched = 0 THEN devices ELSE <<>>

\* for (const device of devices) { await get(...) }: after `fetched` answers
\* the next device is fetched, if there is one
DevicesToFetch(devices, fetched) ==
  IF fetched < Len(devices) THEN <<devices[fetched + 1]>> ELSE <<>>

\* the answers to the per-device requests, in the order of the requests
Fetched(got) == SubSeq(got, 2, Len(got))

\* the loop shared by getFlows() and getStats(): getDevices() is awaited,
\* then one request per device, each awaited before the next is issued; the
\* first failure is rethrown
FetchPerDevice(what, got) ==
  IF got = <<>>
    THEN Await(<<Request(OpenDaylightTopologyPath, "topology", NoParams)>>)
  ELSE IF \E j \in DOMAIN got : got[j].state = "failed"
    THEN Raise(got[CHOOSE j \in DOMAIN got : got[j].state = "failed"].error)
  ELSE IF \E j \in DOMAIN got : got[j].state = "pending" THEN Await(<<>>)
  ELSE LET next == DevicesToFetch(Devices(got[1].data), Len(got) - 1) IN
       IF next # <<>>
         THEN Await([i \in 1..Len(next) |-> DeviceQuery(what, next[i])])
         ELSE Return(Fetched(got))

\* flows.push(...tableFlows.map(...)) for each answer in turn, where
\* tableFlows is the table's flow list or [] when it is missing
RECURSIVE AllFlows(_)
AllFlows(answers) ==
  IF answers = <<>> THEN <<>>
  ELSE (IF answers[1].data.hasFlow
          THEN [i \in 1..Len(answers[1].data.flow) |-> [id |-> answers[1].data.flow[i]]]
          ELSE <<>>)
       \o AllFlows(Tail(answers))

\* OpenDaylightController.getFlows()
OpenDaylightGetFlows(got) ==
  LET st == FetchPerDevice("table", got) IN
  IF st.next = "return" THEN Return(AllFlows(st.result)) ELSE st

\* totalStats after the loop: each field `+= stats[...] || 0`
SdnStats(answers) ==
  [bytesIn |-> Total([i \in 1..Len(answers) |-> NumberOrZero(answers[i].data.bytesReceived)]),
   bytesOut |-> Total([i \in 1..Len(answers) |-> NumberOrZero(answers[i].data.bytesTransmitted)]),
   packetsIn |-> Total([i \in 1..Len(answers) |-> NumberOrZero(answers[i].data.packetsReceived)]),
   packetsOut |-> Total([i \in 1..Len(answers) |-> NumberOrZero(answers[i].data.packetsTransmitted)]),
   activeConnections |->
     Num(Total([i \in 1..Len(answers) |-> NumberOrZero(answers[i].data.activeFlows)]))]

\* OpenDaylightController.getStats()
OpenDaylightGetStats(got) ==
  LET st == FetchPerDevice("flowStatistics", got) IN
  IF st.next = "return" THEN Return(SdnStats(st.result)) ELSE st


(***************************************************************************)
(* Calling an adapter                                                      *)
(***************************************************************************)
MikroTik(op, arg, client, got) ==
  CASE op = "connect" -> MikroTikConnect(got)
    [] op = "disconnect" -> MikroTikDisconnect(client, got)
    [] op = "healthCheck" -> MikroTikHealthCheck(client, got)
    [] op = "getDevices" -> MikroTikGetDevices(client, got)
    [] op = "getFlows" -> MikroTikGetFlows(client, got)
    [] op = "getStats" -> MikroTikGetStats(client, got)
    [] op = "applyQoSPolicy" -> MikroTikApplyQoSPolicy(client, arg, got)

PfSense(op, arg, got) ==
  CASE op = "connect" -> HttpConnect(PfSenseStatusPath, got)
    [] op = "disconnect" -> HttpDisconnect
    [] op = "healthCheck" -> HttpHealthCheck(PfSenseStatusPath, got)
    [] op = "getDevices" -> PfSenseGetDevices(got)
    [] op = "getFlows" -> PfSenseGetFlows(got)
    [] op = "getStats" -> PfSenseGetStats(got)
    [] op = "applyQoSPolicy" -> PfSenseApplyQoSPolicy(arg, got)

OpenDaylight(op, arg, got) ==
  CASE op = "connect" -> HttpConnect(OpenDaylightTopologyPath, got)
    [] op = "disconnect" -> HttpDisconnect
    [] op = "healthCheck" -> HttpHealthCheck(OpenDaylightTopologyPath, got)
    [] op = "getDevices" -> OpenDaylightGetDevices(got)
    [] op = "getFlows" -> OpenDaylightGetFlows(got)
    [] op = "getStats" -> OpenDaylightGetStats(got)
    [] op = "applyQoSPolicy" -> OpenDaylightApplyQoSPolicy(arg, got)

\* what the call a does next, given the answers it has received
Step(a, client) ==
  CASE a.kind = "MikroTikController" -> MikroTik(a.op, a.arg, client, a.got)
    [] a.kind = "PfSenseController" -> PfSense(a.op, a.arg, a.got)
    [] a.kind = "OpenDaylightController" -> OpenDaylight(a.op, a.arg, a.got)

\* the policy application that ended last, while no other operation has been
\* called since: an application that returned is kept, with its policy and
\* the commands it issued
LastAfter(a, st) ==
  IF a.op = "applyQoSPolicy" /\ st.next = "return"
    THEN [applied |-> TRUE, arg |-> a.arg, sent |-> a.sent]
    ELSE NoLast

\* how the adapter's last connect() ended
ConnectedAfter(a, st) ==
  IF a.op = "connect"
    THEN IF st.next = "return" THEN "ok" ELSE "failed"
    ELSE a.connected

\* what the caller of an adapter operation observes when it ends: the
\* result or the error, the requests the call issued and their answers, and
\* how the adapter's last connect() had ended before
AdapterEv(a, st) ==
  [op |-> "adapter", out |-> IF st.next = "return" THEN "returned" ELSE "raised",
   kind |-> a.kind, call |-> a.op, arg |-> a.arg, result |-> st.result,
   sent |-> a.sent, got |-> a.got, spawned |-> st.spawn,
   connected |-> a.connected, previous |-> a.last]

\* the call a goes on as st says: its requests are handed to the transport
\* and it waits, or it ends
AdapterTakes(a, st) ==
  IF st.next = "await"
    THEN /\ ad' = [a EXCEPT !.pc = "await", !.sent = a.sent \o st.send,
                            !.got = a.got \o [i \in 1..Len(st.send) |-> Unanswered]]
         /\ ev' = Quiet
    ELSE /\ ad' = [a EXCEPT !.pc = "idle", !.op = "none", !.arg = NoArg,
                            !.sent = <<>>, !.got = <<>>,
                            !.connected = ConnectedAfter(a, st),
                            !.lookups = st.spawn, !.last = LastAfter(a, st)]
         /\ ev' = AdapterEv(a, st)

\* a caller invokes op on the adapter; the code runs up to its first await.  MikroTikController.connect() creates the client object first
AdapterCalls(op, arg) ==
  /\ ad.kind # "none"
  /\ ad.lookups = <<>>
  /\ mtClient' = (mtClient \/ (op = "connect" /\ ad.kind = "MikroTikController"))
  /\ LET a == [ad EXCEPT !.op = op, !.arg = arg,
                          !.last = IF op = "applyQoSPolicy" THEN ad.last ELSE NoLast]
     IN AdapterTakes(a, Step(a, mtClient'))
  /\ UNCHANGED <<config, controllers, status, steady, memo>>
  /\ UNCHANGED <<activeController, failoverInterval, conn, ticks, disc, call>>

AdapterConnect ==
  /\ ad.pc = "idle"
  /\ AdapterCalls("connect", NoArg)

AdapterDisconnect ==
  /\ ad.pc = "idle"
  /\ AdapterCalls("disconnect", NoArg)

AdapterApplyQoSPolicy ==
  /\ ad.pc = "idle"
  /\ \E policy \in QoSPolicies : AdapterCalls("applyQoSPolicy", policy)

AdapterGetDevices ==
  /\ ad.pc = "idle"
  /\ AdapterCalls("getDevices", NoArg)

AdapterGetFlows ==
  /\ ad.pc = "idle"
  /\ AdapterCalls("getFlows", NoArg)

AdapterGetStats ==
  /\ ad.pc = "idle"
  /\ AdapterCalls("getStats", NoArg)

AdapterHealthCheck ==
  /\ ad.pc = "idle"
  /\ AdapterCalls("healthCheck", NoArg)

\* the data an answer to request req can carry
Data(req) ==
  CASE req.what = "none" -> {"done"}
    [] req.what = "interfaces" ->
         ListsOf([name : InterfaceNames, running : BOOLEAN], MaxInterfaces)
    [] req.what = "addresses" ->
         ListsOf([address : {Missing, Text(<<"10.0.0.1", "/", "24">>),
                             Text(<<"10.0.0.2">>)}], MaxAddresses)
    [] req.what = "connections" ->
         ListsOf([id : {"c1"}, bytes : RouterCounters], MaxConnections)
    [] req.what = "routerCounters" ->
         ListsOf([rxByte : RouterCounters, txByte : RouterCounters,
                  rxPacket : RouterCounters \ {Text(<<"x">>)},
                  txPacket : RouterCounters \ {Missing}],
                 MaxInterfaces)
    [] req.what = "routerCount" -> RouterCounters
    [] req.what = "firewallInterfaces" ->
         ListsOf([name : InterfaceNames, running : BOOLEAN,
                  address : {Missing, Text(<<"10.0.0.1">>)}], MaxInterfaces)
    [] req.what = "firewallCounters" ->
         ListsOf([rxByte : FirewallCounters, txByte : FirewallCounters,
                  rxPacket : FirewallCounters \ {Text(<<"x">>)},
                  txPacket : FirewallCounters \ {Missing}],
                 MaxInterfaces)
    [] req.what = "firewallTotal" -> {Missing, Num(0), Num(5)}
    [] req.what = "topology" -> Topologies
    [] req.what = "table" ->
         {[hasFlow |-> FALSE, flow |-> <<>>]} \cup
         {[hasFlow |-> TRUE, flow |-> l] : l \in ListsOf({"f1", "f2"}, MaxFlows)}
    [] req.what = "flowStatistics" ->
         [bytesReceived : {Missing, Num(2)}, bytesTransmitted : {Missing, Num(2)},
          packetsReceived : {Missing, Num(2)}, packetsTransmitted : {Missing, Num(2)},
          activeFlows : {Missing, Num(2)}]

\* the transport answers an address query that getDevices() left behind: the
\* promise stored as a device's ipAddress settles, with nobody awaiting it
LookupAnswers ==
  /\ ad.kind # "none"
  /\ \E j \in DOMAIN ad.lookups :
       /\ ad' = [ad EXCEPT !.lookups = [i \in 1..(Len(ad.lookups) - 1) |->
                                          IF i < j THEN ad.lookups[i]
                                          ELSE ad.lookups[i + 1]]]
       /\ \/ \E e \in TransportErrors :
               ev' = [op |-> "adapter", out |-> "settled", kind |-> ad.kind,
                      call |-> "getInterfaceIp", arg |-> ad.lookups[j].params.name,
                      result |-> InterfaceIp(Failure(e))]
          \/ \E d \in Data(ad.lookups[j]) :
               ev' = [op |-> "adapter", out |-> "settled", kind |-> ad.kind,
                      call |-> "getInterfaceIp", arg |-> ad.lookups[j].params.name,
                      result |-> InterfaceIp(Success(d))]
  /\ UNCHANGED <<config, controllers, status, steady, memo>>
  /\ UNCHANGED <<activeController, failoverInterval, conn, ticks, disc, call, mtClient>>

\* the transport answers a request the call in progress waits for, and the
\* call runs on to its next await or to its end
TransportAnswers ==
  /\ ad.kind # "none"
  /\ ad.pc = "await"
  /\ \E j \in DOMAIN ad.got :
       /\ ad.got[j].state = "pending"
       /\ \/ \E e \in TransportErrors :
               LET a == [ad EXCEPT !.got[j] = Failure(e)] IN AdapterTakes(a, Step(a, mtClient))
          \/ \E d \in Data(ad.sent[j]) :
               LET a == [ad EXCEPT !.got[j] = Success(d)] IN AdapterTakes(a, Step(a, mtClient))
  /\ UNCHANGED <<config, controllers, status, steady, memo>>
  /\ UNCHANGED <<activeController, failoverInterval, conn, ticks, disc, call, mtClient>>


(***************************************************************************)
(* Specification                                                           *)
(***************************************************************************)
\* the manager's life cycle: connect(), the failover timer and disconnect()
NextManager ==
  \/ ConnectStart
  \/ ConnectSettle
  \/ ConnectSelectReturn
  \/ TickStart
  \/ TickCheckReturn
  \/ TickSelectReturn
  \/ DisconnectStart
  \/ DisconnectResolved
  \/ DisconnectRejected

SpecManager == Init /\ [][NextManager]_vars

\* the life cycle while backends recover
NextBackends ==
  \/ NextManager
  \/ BecomesSteady

SpecBackends == Init /\ [][NextBackends]_vars

\* the life cycle with one selection run kept to compare later runs with
NextMemory ==
  \/ NextManager
  \/ Remember

SpecMemory == Init /\ [][NextMemory]_vars

\* the same, with a timer that keeps firing while it is armed and health
\* probes that are answered: setInterval re-fires the callback every
\* failoverCheckInterval milliseconds, and a callback resumes when the promise
\* it awaits settles
SpecBackendsFair ==
  /\ SpecBackends
  /\ WF_vars(TickStart)
  /\ WF_vars(TickCheckReturn)
  /\ WF_vars(TickSelectReturn)

\* the life cycle together with the callers of status introspection
NextStatus ==
  \/ NextManager
  \/ GetActiveControllerType
  \/ GetAllControllersStatusStart
  \/ StatusProbeReturn

InitStatus == Init /\ N <= MaxBackendsStatus

SpecStatus == InitStatus /\ [][NextStatus]_vars

\* the life cycle together with the callers of the delegated operations and
\* of getActiveControllerType()
Next ==
  \/ ConnectStart
  \/ ConnectSettle
  \/ ConnectSelectReturn
  \/ TickStart
  \/ TickCheckReturn
  \/ TickSelectReturn
  \/ DisconnectStart
  \/ DisconnectResolved
  \/ DisconnectRejected
  \/ CallStart
  \/ CallSettle
  \/ GetActiveControllerType

Spec == Init /\ [][Next]_vars

\* every operation of the manager side by side
NextAll ==
  \/ NextStatus
  \/ CallStart
  \/ CallSettle

InitAll == Init /\ N <= MaxBackendsAll

SpecAll == InitAll /\ [][NextAll]_vars

\* an adapter used on its own: no manager is built around it
NextAdapters ==
  \/ AdapterConnect
  \/ AdapterDisconnect
  \/ AdapterHealthCheck
  \/ AdapterGetDevices
  \/ AdapterGetFlows
  \/ LookupAnswers
  \/ AdapterApplyQoSPolicy
  \/ TransportAnswers

InitAdapters ==
  /\ config = {}
  /\ controllers = InitializeControllers(config)
  /\ activeController = None
  /\ failoverInterval = "armed"
  /\ conn = IdleConn
  /\ ticks = EmptyBag
  /\ disc = IdleDisc
  /\ call = IdleCall
  /\ mtClient = FALSE
  /\ status = IdleStatus
  /\ steady = {}
  /\ ad \in {NewAdapter(Kinds[i]) : i \in DOMAIN Kinds}
  /\ memo = NoMemo
  /\ ev = Quiet

SpecAdapters == InitAdapters /\ [][NextAdapters]_vars

\* the same with getStats(), whose answers are many
NextAdapterStats ==
  \/ NextAdapters
  \/ AdapterGetStats

SpecAdapterStats == InitAdapters /\ [][NextAdapterStats]_vars

\* the life cycle with the moment kept from which the callbacks in flight are
\* the earlier runs
NextOverlap ==
  \/ NextManager
  \/ NoteEarlierRuns

SpecOverlap == Init /\ [][NextOverlap]_vars

(***************************************************************************)
(* Properties                                                              *)
(***************************************************************************)
\* the adapters 1..k in configured order
Upto(k) == [i \in 1..k |-> i]

\* the first adapter, in configured order, that answered true in a run
FirstHealthy(sel) == CHOOSE i \in sel.healthy : \A j \in sel.healthy : i <= j

\* C1: when connect() ends and some probe of its selection run answered true,
\* connect() has succeeded and the active adapter is the first adapter in
\* configured order that answered true: every adapter before it was probed in
\* this run and did not answer true, and no adapter after it was probed.
C1_ConnectSelectsFirstHealthy ==
  (ev.op = "connect" /\ ev.sel.healthy # {}) =>
     /\ ev.out = "ok"
     /\ activeController \in 1..N
     /\ activeController = FirstHealthy(ev.sel)
     /\ ev.sel.healthy = {activeController}
     /\ ev.sel.probed = Upto(activeController)

\* connect() ended with the second of three adapters active, the first one
\* having answered unhealthy
C1_Witness ==
  /\ ev.op = "connect"
  /\ ev.out = "ok"
  /\ N = 3
  /\ activeController = 2
  /\ ev.sel.probed = <<1, 2>>

\* C2: when a timer tick found the active adapter's probe false and a probe of
\* the re-selection answered true, the tick ends with the active adapter being
\* the first adapter in configured order that answered true in that
\* re-selection run; no later-ordered adapter is chosen past a healthy one.
C2_TickFailsOverToFirstHealthy ==
  (ev.op = "tick" /\ ~ev.fired /\ ev.checkRes = "false" /\ ev.sel.healthy # {}) =>
     /\ ev.out = "selected"
     /\ activeController \in 1..N
     /\ activeController = FirstHealthy(ev.sel)
     /\ ev.sel.healthy = {activeController}
     /\ ev.sel.probed = Upto(activeController)

\* a tick found adapter 1 unhealthy and ended with adapter 2 of three active
C2_Witness ==
  /\ ev.op = "tick"
  /\ ev.out = "selected"
  /\ ev.checkRes = "false"
  /\ N = 3
  /\ ev.activeBefore = 1
  /\ activeController = 2

\* C3: when a timer tick found the active adapter unhealthy and its
\* re-selection found no healthy adapter, the tick ends with no adapter active.
C3_AllUnhealthyClearsActive ==
  (ev.op = "tick" /\ ev.out = "uncaught" /\ ev.checkRes = "false") =>
     activeController = None

\* C4: a delegated operation called while no adapter is active fails at the
\* call with the no-active-controller error, invokes no adapter operation,
\* starts nothing and leaves the manager state, the null pointer included, as
\* it was; no call is ever in flight that was made with no adapter active.
C4_NoActiveFailsImmediately ==
  /\ call.pc = "inflight" => call.activeAtCall # None
  /\ (ev.op = "call" /\ ev.activeBefore = None /\ ev.at = "call") =>
        /\ ev.out = "raised"
        /\ ev.result = NoActiveError
        /\ ev.ninvoked = 0
        /\ call.pc = "idle"
        /\ activeController = None
        /\ ev.frame = Frame

\* applyQoSPolicy was called on a manager of three adapters after disconnect()
C4_Witness ==
  /\ ev.op = "call"
  /\ ev.at = "call"
  /\ ev.out = "raised"
  /\ ev.callOp = "applyQoSPolicy"
  /\ N = 3
  /\ failoverInterval = "cleared"

\* C5: a delegated call in flight has invoked exactly one adapter operation:
\* the operation of the same name, on the adapter that was active at the call,
\* with the caller's argument; when the adapter answers, the caller receives
\* that answer and nothing else has been invoked.
C5_DelegatesToActiveOnly ==
  /\ call.pc = "inflight" =>
        /\ call.activeAtCall \in 1..N
        /\ call.invoked = <<[adapter |-> call.activeAtCall, method |-> call.op,
                             arg |-> call.arg]>>
  /\ (ev.op = "call" /\ ev.at = "settle" /\ ev.answered \in Values) =>
        /\ ev.out = "returned"
        /\ ev.result = ev.answered
        /\ ev.ninvoked = 1

\* applyQoSPolicy(p2) is in flight on adapter 2 while the active adapter has
\* meanwhile become adapter 1
C5_Witness ==
  /\ call.pc = "inflight"
  /\ call.op = "applyQoSPolicy"
  /\ call.arg = "p2"
  /\ call.activeAtCall = 2
  /\ activeController = 1

\* C6: when the adapter fails a delegated call, the caller receives that same
\* error, the call has invoked one adapter operation and no more, and the step
\* leaves the active pointer, the timer, connect(), disconnect() and the timer
\* callbacks as they were; no step of a delegated call changes the pointer.
C6_FailurePropagatesNoFailover ==
  /\ (ev.op = "call" /\ ev.at = "settle" /\ ev.answered \in Errors) =>
        /\ ev.out = "raised"
        /\ ev.result = ev.answered
        /\ ev.ninvoked = 1
        /\ call.pc = "idle"
        /\ ev.frame = Frame
  /\ ev.op = "call" => ev.activeBefore = activeController

\* a delegated getStats failed on the active adapter of a manager of three
\* while another adapter was configured after it
C6_Witness ==
  /\ ev.op = "call"
  /\ ev.at = "settle"
  /\ ev.result = "e1"
  /\ ev.callOp = "getStats"
  /\ N = 3
  /\ activeController = 1

\* C7: when disconnect() completes, disconnect() has been invoked on every
\* configured adapter, the interval is cleared and no adapter is active; the
\* interval fires only while it is armed, and nothing arms it again.
C7_DisconnectTearsDown ==
  /\ (ev.op = "disconnect" /\ ev.out = "ok") =>
        /\ ev.invoked = Upto(N)
        /\ failoverInterval = "cleared"
        /\ activeController = None
  /\ (ev.op = "tick" /\ ev.fired) => failoverInterval = "armed"
  /\ disc.pc = "awaiting" => failoverInterval = "cleared"

\* disconnect() completed on a manager of three whose second adapter was
\* active, while a timer callback was still in flight
C7_Witness ==
  /\ ev.op = "disconnect"
  /\ ev.out = "ok"
  /\ N = 3
  /\ ev.activeBefore = 2
  /\ ticks # EmptyBag

\* C8: when connect() ends, connect() has been invoked on every configured
\* adapter once, in order, and each has settled, whichever of them failed; and
\* if a probe of the selection answered true, connect() has succeeded.
C8_ConnectTriesEveryAdapter ==
  ev.op = "connect" =>
     /\ ev.invoked = Upto(N)
     /\ ev.settled = Upto(N)
     /\ ev.sel.healthy # {} => ev.out = "ok"

\* connect() succeeded although the connect() of the first and the third
\* adapter failed
C8_Witness ==
  /\ ev.op = "connect"
  /\ ev.out = "ok"
  /\ N = 3
  /\ ev.errors = <<1, 3>>

\* C9: when connect() fails, its error is the connection error that lists the
\* failures of the adapters whose connect() failed.
C9_ConnectFailureAggregates ==
  (ev.op = "connect" /\ ev.out = "raised") =>
     ev.error = FailedToConnectError(ev.errors)

\* C10 as stated: while connect() awaits adapter connect() calls, the
\* connect() of every configured adapter has been started.
C10_ConnectsConcurrently ==
  conn.pc = "connect" => conn.invoked = Upto(N)

\* C10 as amended: connect() attempts the adapters one at a time in configured
\* order: while it awaits the connect() of an adapter, the connect() of every
\* earlier adapter has settled and that of no later adapter has been started.
C10_ConnectsSequentially ==
  conn.pc = "connect" =>
     /\ conn.idx \in 1..N
     /\ conn.invoked = Upto(conn.idx)
     /\ conn.settled = Upto(conn.idx - 1)

\* the third adapter's connect() is pending after the first one's failed
C10_Witness ==
  /\ conn.pc = "connect"
  /\ conn.idx = 3
  /\ conn.errors = <<1>>

\* the position of an adapter class in the order of construction
KindIndex(k) == CHOOSE i \in DOMAIN Kinds : Kinds[i] = k

\* the selection runs in progress, of connect() and of the timer callbacks
RunsInFlight ==
  (IF conn.pc = "select" THEN {[idx |-> conn.idx, sel |-> conn.sel]} ELSE {})
  \cup {[idx |-> t.idx, sel |-> t.sel] : t \in {u \in BagToSet(ticks) : u.pc = "select"}}

\* C11: the adapter list is in the order SDN controller, firewall, router; a
\* selection run in progress has probed the adapters 1..k in that order with
\* only the probe of adapter k unanswered and none of them answered true; a
\* probe that answers false or throws is followed by the probe of the next
\* adapter, or ends the run after the last one; a run that ends with a healthy
\* answer has probed exactly the adapters up to that one and made it active;
\* a run that ends without one has probed every adapter.
C11_SelectionProbesInOrder ==
  /\ \A i, j \in 1..N : i < j => KindIndex(controllers[i]) < KindIndex(controllers[j])
  /\ \A run \in RunsInFlight :
       /\ run.idx \in 1..N
       /\ run.sel.probed = Upto(run.idx)
       /\ run.sel.healthy = {}
  /\ ev.op = "probe" =>
       /\ ev.res \in {"false", "throw"}
       /\ IF ev.who < N THEN ev.then = "probe" /\ ev.next = ev.who + 1
                        ELSE ev.then = "throw"
  /\ (ev.op = "connect" \/ (ev.op = "tick" /\ ev.out \in {"selected", "uncaught"})) =>
       IF ev.sel.healthy # {}
         THEN /\ ev.sel.healthy = {activeController}
              /\ ev.sel.probed = Upto(activeController)
         ELSE ev.sel.probed = Upto(N)

\* the probe of the first of three adapters threw and the run goes on with
\* the probe of the second
C11_Witness ==
  /\ N = 3
  /\ ev.op = "probe"
  /\ ev.res = "throw"
  /\ ev.who = 1
  /\ conn.pc = "select"
  /\ conn.idx = 2

\* C12: a tick that finds an adapter active probes that adapter and nothing
\* else; when that probe answers true the tick ends there: it has started no
\* selection run, probed no other adapter and left the active pointer as it
\* was, also when an earlier-ordered adapter is healthy again.
C12_HealthyActiveIsKept ==
  /\ (ev.op = "tick" /\ ev.fired /\ ev.activeBefore # None) =>
       /\ ev.out = "pending"
       /\ ev.sel = NewSel
       /\ \E t \in BagToSet(ticks) :
            t.pc = "check" /\ t.idx = ev.activeBefore /\ t.sel = NewSel /\ t.runs = 0
  /\ (ev.op = "tick" /\ ev.checkRes = "true") =>
       /\ ev.out = "healthy"
       /\ ev.runs = 0
       /\ ev.sel = NewSel
       /\ activeController = ev.activeBefore
  /\ \A t \in BagToSet(ticks) : t.checkRes # "true"

\* the second adapter is active and the first one has recovered for good:
\* the tick probed the second, which answered true, and ended
C12_Witness ==
  /\ N = 3
  /\ ev.op = "tick"
  /\ ev.out = "healthy"
  /\ activeController = 2
  /\ 1 \in steady

\* C13: from a state with no active adapter, the timer armed and some adapter
\* healthy for good, an adapter becomes active (unless disconnect() clears the
\* timer first), whether or not connect() is ever called.
C13_TimerEventuallySelects ==
  (steady # {} /\ activeController = None /\ failoverInterval = "armed")
     ~> (activeController # None \/ failoverInterval = "cleared")

\* a tick that found no adapter active ran the selection and made the second
\* adapter, healthy for good, the active one
C13_Witness ==
  /\ N = 3
  /\ ev.op = "tick"
  /\ ev.out = "selected"
  /\ ev.checkRes = "none"
  /\ ev.activeBefore = None
  /\ activeController = 2
  /\ 2 \in steady

\* the adapters a status report flags as active
FlaggedActive(report) == {i \in DOMAIN report : report[i].active}

\* the adapter the active pointer names, if any
ActiveNow == IF activeController = None THEN {} ELSE {activeController}

\* C14: in every report that getAllControllersStatus() returns, the entries
\* with active = true are exactly the adapter that is active at the return.
C14_ReportFlagsActiveAtReturn ==
  (ev.op = "getAllControllersStatus" /\ ev.out = "returned") =>
     FlaggedActive(ev.result) = ActiveNow

\* C15: getAllControllersStatus() invokes healthCheck() once on every
\* configured adapter, whatever the manager state; the report it returns has
\* one entry per configured adapter, in configured order, with that adapter's
\* class name and the answer of the probe invoked in this call; the call
\* fails only when a probe throws.
C15_ReportCoversEveryAdapter ==
  /\ status.pc = "awaiting" =>
       /\ status.invoked = Upto(N)
       /\ DOMAIN status.answers = (1..N) \ status.pending
  /\ (ev.op = "getAllControllersStatus" /\ ev.out = "returned") =>
       /\ ev.invoked = Upto(N)
       /\ DOMAIN ev.answers = 1..N
       /\ DOMAIN ev.result = 1..N
       /\ \A i \in 1..N :
            /\ ev.result[i].type = controllers[i]
            /\ ev.result[i].healthy = (ev.answers[i] = "true")
  /\ (ev.op = "getAllControllersStatus" /\ ev.out = "raised") =>
       \E i \in DOMAIN ev.answers : ev.answers[i] = "throw"

\* a report of two entries, the first healthy and the second not, returned
\* while no adapter is active and connect() has not been called
C15_Witness ==
  /\ ev.op = "getAllControllersStatus"
  /\ ev.out = "returned"
  /\ N = 2
  /\ ev.result[1].healthy
  /\ ~ev.result[2].healthy
  /\ activeController = None
  /\ "MikroTikController" \in config
  /\ ~mtClient

\* C16: no step of getAllControllersStatus() or getActiveControllerType()
\* changes the active pointer (nor the timer, nor a connect(), tick or
\* disconnect() in progress), whatever the status probes answer.
C16_IntrospectionKeepsPointer ==
  ev.op \in {"getAllControllersStatus", "getActiveControllerType"} =>
     ev.frame = Frame

\* the report shows the active adapter unhealthy; the adapter is still active
\* and neither a tick nor a connect() is running a selection
C16_Witness ==
  /\ ev.op = "getAllControllersStatus"
  /\ ev.out = "returned"
  /\ N = 2
  /\ activeController = 1
  /\ ev.result[1].active
  /\ ~ev.result[1].healthy
  /\ ticks = EmptyBag
  /\ conn.pc = "idle"

\* the adapter that serves the delegated call in flight
ServingAdapter == call.invoked[1].adapter

\* C17 as stated: the tag getActiveControllerType() reports is the tag of the
\* adapter that served the most recent delegated call (here a call that is
\* still in flight).
C17_TagIsLastServingAdapter ==
  (ev.op = "getActiveControllerType" /\ call.pc = "inflight") =>
     ev.result = controllers[ServingAdapter]

\* C17 as amended: the tag getActiveControllerType() reports is the class
\* name of the adapter that is active at the query, 'None' when none is; it
\* is the tag of the adapter serving a delegated call in flight whenever the
\* active adapter is the one that was active when that call was dispatched.
C17_TagIsActiveAdapter ==
  ev.op = "getActiveControllerType" =>
     /\ IF activeController = None THEN ev.result = "None"
                                   ELSE ev.result = controllers[activeController]
     /\ (call.pc = "inflight" /\ call.activeAtCall = activeController) =>
          ev.result = controllers[ServingAdapter]

\* a call dispatched to the second adapter is in flight, the second adapter
\* is still active and the tag reported is its class name
C17_Witness ==
  /\ ev.op = "getActiveControllerType"
  /\ N = 3
  /\ call.pc = "inflight"
  /\ call.activeAtCall = 2
  /\ activeController = 2
  /\ ev.result = "PfSenseController"

\* C18: a step of a timer tick leaves a delegated call in flight as it is; a
\* call in flight whose adapter is no longer the active one has been invoked
\* once, on the adapter that was active at the call, with the caller's
\* operation and argument; and it settles with what that adapter answers.
C18_InFlightCallSurvivesSwap ==
  /\ ev.op = "tick" => call = ev.callBefore
  /\ (call.pc = "inflight" /\ call.activeAtCall # activeController) =>
       call.invoked = <<[adapter |-> call.activeAtCall, method |-> call.op,
                         arg |-> call.arg]>>
  /\ (ev.op = "call" /\ ev.at = "settle" /\ ev.swapped) =>
       /\ ev.ninvoked = 1
       /\ ev.result = ev.answered
       /\ ev.out = IF ev.answered \in Errors THEN "raised" ELSE "returned"

\* a tick has just moved the active pointer from the first adapter to the
\* second while a call delegated to the first is in flight
C18_Witness ==
  /\ ev.op = "tick"
  /\ ev.out = "selected"
  /\ ev.activeBefore = 1
  /\ activeController = 2
  /\ call.pc = "inflight"
  /\ call.activeAtCall = 1

\* C19: a manager built from an empty configuration has no adapter; its
\* connect() fails without invoking anything, every delegated operation fails
\* at the call with the no-active-controller error, every tick ends without
\* an active adapter, the pointer stays none and the status report is empty.
C19_EmptyConfiguration ==
  config = {} =>
     /\ controllers = <<>>
     /\ activeController = None
     /\ call.pc = "idle"
     /\ ev.op = "connect" => (ev.out = "raised" /\ ev.invoked = <<>>)
     /\ ev.op = "call" =>
          /\ ev.at = "call"
          /\ ev.out = "raised"
          /\ ev.result = NoActiveError
          /\ ev.ninvoked = 0
     /\ ev.op = "tick" => (ev.out = "uncaught" /\ ev.sel = NewSel)
     /\ ev.op = "getAllControllersStatus" => (ev.out = "returned" /\ ev.result = <<>>)
     /\ ev.op = "getActiveControllerType" => ev.result = "None"

\* connect() of a manager without adapters has failed
C19_Witness ==
  /\ config = {}
  /\ ev.op = "connect"
  /\ ev.out = "raised"
  /\ ev.error = NoHealthyError

\* C20: in every reachable state the adapter list is the one the constructor
\* built from the configuration, without duplicates, and the active pointer
\* is none or one element of that list.
C20_ActiveIsMemberOfFixedList ==
  /\ controllers = InitializeControllers(config)
  /\ \A i, j \in 1..N : controllers[i] = controllers[j] => i = j
  /\ activeController \in {None} \cup (1..N)

\* the only adapter is active after connect(); a status report has just been
\* returned while a delegated call is in flight and disconnect() has begun
C20_Witness ==
  /\ N = 1
  /\ activeController = 1
  /\ ev.op = "getAllControllersStatus"
  /\ ev.out = "returned"
  /\ call.pc = "inflight"
  /\ disc.pc = "awaiting"
  /\ mtClient

\* C21: disconnect() of each of the three adapters never raises, whatever
\* state the adapter is in: before connect(), after a connect() that
\* succeeded or failed, and when closing the underlying session fails.
C21_DisconnectNeverRaises ==
  (ev.op = "adapter" /\ ev.call = "disconnect") => ev.out = "returned"

\* C22: healthCheck() of each of the three adapters always returns a boolean
\* and never raises: true exactly when its one probe request succeeded, false
\* when the probe failed, and false for the router adapter on which connect()
\* has never been called (no probe is sent then).
C22_HealthCheckReturnsBoolean ==
  (ev.op = "adapter" /\ ev.call = "healthCheck") =>
     /\ ev.out = "returned"
     /\ ev.result \in BOOLEAN
     /\ Len(ev.sent) <= 1
     /\ ev.result = (Len(ev.sent) = 1 /\ ev.got[1].state = "ok")
     /\ (ev.kind = "MikroTikController" /\ ev.connected = "never") =>
           (ev.result = FALSE /\ ev.sent = <<>>)

\* the router adapter answers false before any connect()
C22_Witness ==
  /\ ev.op = "adapter"
  /\ ev.call = "healthCheck"
  /\ ev.kind = "MikroTikController"
  /\ ev.connected = "never"
  /\ ev.result = FALSE

\* the ports of a policy, none when policy.ports is absent
PortsOf(policy) == IF policy.ports.given THEN policy.ports.list ELSE <<>>

\* the step just taken ended an applyQoSPolicy() of the router adapter
RouterApplied ==
  /\ ev.op = "adapter"
  /\ ev.call = "applyQoSPolicy"
  /\ ev.kind = "MikroTikController"

\* C23: applying a QoS policy with n listed ports through the router adapter
\* issues exactly one queue-create command and then exactly n packet-marking
\* commands, in the order of the port list, the i-th carrying the i-th port
\* and the policy's protocol (tcp when the policy has none); with ports absent
\* or empty it issues the queue-create command only.
C23_QueueThenOneMarkPerPort ==
  (RouterApplied /\ ev.out = "returned") =>
     LET ports == PortsOf(ev.arg) IN
     /\ Len(ev.sent) = 1 + Len(ports)
     /\ ev.sent[1].cmd = "/queue/simple/add"
     /\ \A i \in 1..Len(ports) :
          /\ ev.sent[i + 1].cmd = "/ip/firewall/mangle/add"
          /\ ParseInt(ev.sent[i + 1].params.port) = [nan |-> FALSE, n |-> ports[i]]
          /\ ev.sent[i + 1].params.protocol =
               (IF ev.arg.protocol.given THEN ev.arg.protocol.text ELSE "tcp")

\* a policy without a protocol and with ports 443, 80 is applied
C23_Witness ==
  /\ RouterApplied
  /\ ev.out = "returned"
  /\ ~ev.arg.protocol.given
  /\ PortsOf(ev.arg) = <<443, 80>>
  /\ Len(ev.sent) = 3

\* C24: applying the identical QoS policy twice through the router adapter
\* sends the same command sequence the second time as the first, the
\* queue-create command included: nothing is skipped or updated in place
\* because the rule exists.
C24_SecondApplicationRepeatsCommands ==
  (RouterApplied /\ ev.out = "returned" /\ ev.previous.applied
     /\ ev.previous.arg = ev.arg) =>
     /\ ev.sent = ev.previous.sent
     /\ Len(ev.sent) >= 1
     /\ ev.sent[1].cmd = "/queue/simple/add"

\* the same policy with one port is applied a second time
C24_Witness ==
  /\ RouterApplied
  /\ ev.out = "returned"
  /\ ev.previous.applied
  /\ ev.previous.arg = ev.arg
  /\ PortsOf(ev.arg) = <<80>>
  /\ Len(ev.sent) = 2

\* the numbers a counter may spell
CounterRange == 0..99

\* what a reported counter counts for: its number, or 0 when it is missing
\* or is a text that spells no number
Reading(v) ==
  IF v.t = "num" THEN v.n
  ELSE IF v.t = "text" /\ \E k \in CounterRange : NumberToString(k) = v.chars
    THEN CHOOSE k \in CounterRange : NumberToString(k) = v.chars
    ELSE 0

\* the sum of the first n elements of f
RECURSIVE SumUpTo(_, _)
SumUpTo(f, n) == IF n = 0 THEN 0 ELSE f[n] + SumUpTo(f, n - 1)

\* the step just taken ended a getStats() of the firewall or router adapter
InterfaceStatsEnded ==
  /\ ev.op = "adapter"
  /\ ev.call = "getStats"
  /\ ev.kind \in {"PfSenseController", "MikroTikController"}

\* C25: getStats() of the firewall adapter and of the router adapter returns,
\* for each of bytesIn, bytesOut, packetsIn and packetsOut, the sum over all
\* listed interfaces of that counter, a missing or unparsable counter counting
\* as 0, and activeConnections equal to the reported connection count, or 0
\* when it is missing; when both requests are answered the call returns,
\* whatever fields are missing.
C25_StatsAreSumsWithMissingAsZero ==
  /\ (InterfaceStatsEnded /\ Len(ev.got) = 2
        /\ ev.got[1].state = "ok" /\ ev.got[2].state = "ok") => ev.out = "returned"
  /\ (InterfaceStatsEnded /\ ev.out = "returned") =>
       LET ifaces == ev.got[1].data
           n == Len(ifaces)
       IN /\ ev.result.bytesIn = SumUpTo([i \in 1..n |-> Reading(ifaces[i].rxByte)], n)
          /\ ev.result.bytesOut = SumUpTo([i \in 1..n |-> Reading(ifaces[i].txByte)], n)
          /\ ev.result.packetsIn = SumUpTo([i \in 1..n |-> Reading(ifaces[i].rxPacket)], n)
          /\ ev.result.packetsOut = SumUpTo([i \in 1..n |-> Reading(ifaces[i].txPacket)], n)
          /\ ev.result.activeConnections = Num(Reading(ev.got[2].data))

\* the router lists two interfaces, one without a received-bytes counter, and
\* no connection count
C25_Witness ==
  /\ InterfaceStatsEnded
  /\ ev.kind = "MikroTikController"
  /\ ev.out = "returned"
  /\ Len(ev.got[1].data) = 2
  /\ ev.got[1].data[1].rxByte = Missing
  /\ ev.got[2].data = Missing
  /\ ev.result.bytesIn = 12
  /\ ev.result.bytesOut = 24
  /\ ev.result.activeConnections = Num(0)

\* C26: getDevices() of the router adapter returns only after the address
\* lookup of every listed interface has completed, and the ipAddress of each
\* returned device is a string: the first address found for the interface
\* without its prefix length, or "unknown".
C26_DevicesCarryLookedUpAddress ==
  (ev.op = "adapter" /\ ev.call = "getDevices" /\ ev.kind = "MikroTikController"
     /\ ev.out = "returned") =>
     /\ ad.lookups = <<>>
     /\ \A i \in DOMAIN ev.result : ev.result[i].ipAddress.type = "string"

\* C27: for each adapter, when a transport request of getDevices, getFlows,
\* getStats or applyQoSPolicy fails, the operation raises that same error,
\* no request is issued after the failure (no retry) and nothing is returned;
\* when the transport request of connect() fails, connect() raises the
\* connection error.
C27_TransportFailurePropagates ==
  (ev.op = "adapter" /\ ev.call \in {"getDevices", "getFlows", "getStats",
                                      "applyQoSPolicy", "connect"}) =>
     \A j \in DOMAIN ev.got : ev.got[j].state = "failed" =>
        /\ ev.out = "raised"
        /\ \A i \in DOMAIN ev.got : i # j => ev.got[i].state # "failed"
        /\ ev.call \in {"getDevices", "getFlows", "getStats", "applyQoSPolicy"} =>
             /\ ev.result = ev.got[j].error
             /\ \/ j = Len(ev.sent)
                \/ ev.kind = "PfSenseController" /\ ev.call = "getStats"
                     /\ Len(ev.sent) = 2
        /\ ev.call = "connect" => ev.result = ConnectionFailed

\* the router's second packet-marking command fails and applyQoSPolicy()
\* raises its error
C27_Witness ==
  /\ ev.op = "adapter"
  /\ ev.call = "applyQoSPolicy"
  /\ ev.kind = "MikroTikController"
  /\ ev.out = "raised"
  /\ Len(ev.got) = 3
  /\ ev.got[3].state = "failed"
  /\ ev.result = [text |-> "t2"]

\* C28: selection has no memory: a selection run that saw the same health
\* results as a run that ended earlier (the same adapters probed in the same
\* order, the same one answering true) chooses the same adapter, whichever
\* adapter was active before either run and whatever runs came between.
C28_SelectionHasNoMemory ==
  (memo.kept /\ RunEnded /\ ev.sel = memo.sel) => RunChoice = memo.choice

\* a run repeats the results of an earlier run while another adapter is active
\* than was then, and chooses the second adapter again
C28_Witness ==
  /\ memo.kept
  /\ RunEnded
  /\ ev.sel = memo.sel
  /\ ev.sel.probed = <<1, 2>>
  /\ RunChoice = 2
  /\ ev.activeBefore # memo.activeBefore
  /\ ev.activeBefore # None

\* a getFlows() or getStats() of the SDN adapter
SdnLoop(kind, op) ==
  kind = "OpenDaylightController" /\ op \in {"getFlows", "getStats"}

\* the requests after the topology query are for the devices of the answered
\* topology, one each, in device order
OneFetchPerDevice(sent, got) ==
  /\ sent[1].cmd = OpenDaylightTopologyPath
  /\ Len(sent) >= 2 =>
       /\ got[1].state = "ok"
       /\ Len(sent) - 1 <= Len(Devices(got[1].data))
       /\ \A i \in 2..Len(sent) :
            /\ sent[i].what \in {"table", "flowStatistics"}
            /\ sent[i].params.name = Devices(got[1].data)[i - 1].id

\* the flows a flow table answer lists
FlowsOf(answer) == IF answer.data.hasFlow THEN answer.data.flow ELSE <<>>

\* C29: getFlows() and getStats() of the SDN adapter perform one topology
\* query and then exactly one fetch per returned device, one after the other
\* in device order: a fetch is issued only after every earlier request has
\* been answered.  The result combines the devices' data in that order; if a
\* request fails the call raises that error, fetches no later device and
\* returns nothing.
C29_OneFetchPerDeviceInOrder ==
  /\ (SdnLoop(ad.kind, ad.op) /\ ad.pc = "await") =>
       /\ OneFetchPerDevice(ad.sent, ad.got)
       /\ \A j \in DOMAIN ad.got :
            ad.got[j].state = (IF j = Len(ad.got) THEN "pending" ELSE "ok")
  /\ (ev.op = "adapter" /\ SdnLoop(ev.kind, ev.call)) =>
       /\ OneFetchPerDevice(ev.sent, ev.got)
       /\ \A j \in 1..(Len(ev.got) - 1) : ev.got[j].state = "ok"
       /\ ev.out = "raised" =>
            /\ ev.got[Len(ev.got)].state = "failed"
            /\ ev.result = ev.got[Len(ev.got)].error
       /\ ev.out = "returned" =>
            LET n == Len(ev.got) - 1
                counts == [i \in 1..n |-> Len(FlowsOf(ev.got[i + 1]))]
            IN /\ ev.got[Len(ev.got)].state = "ok"
               /\ n = Len(Devices(ev.got[1].data))
               /\ ev.call = "getFlows" =>
                    /\ Len(ev.result) = SumUpTo(counts, n)
                    /\ \A i \in 1..n : \A k \in 1..counts[i] :
                         ev.result[SumUpTo(counts, i - 1) + k].id
                           = FlowsOf(ev.got[i + 1])[k]
               /\ ev.call = "getStats" =>
                    /\ ev.result.bytesIn = SumUpTo(
                         [i \in 1..n |-> Reading(ev.got[i + 1].data.bytesReceived)], n)
                    /\ ev.result.bytesOut = SumUpTo(
                         [i \in 1..n |-> Reading(ev.got[i + 1].data.bytesTransmitted)], n)
                    /\ ev.result.packetsIn = SumUpTo(
                         [i \in 1..n |-> Reading(ev.got[i + 1].data.packetsReceived)], n)
                    /\ ev.result.packetsOut = SumUpTo(
                         [i \in 1..n |-> Reading(ev.got[i + 1].data.packetsTransmitted)], n)
                    /\ ev.result.activeConnections = Num(SumUpTo(
                         [i \in 1..n |-> Reading(ev.got[i + 1].data.activeFlows)], n))

\* getFlows() over two devices returns the first device's flow before the
\* second one's
C29_Witness ==
  /\ ev.op = "adapter"
  /\ SdnLoop(ev.kind, ev.call)
  /\ ev.call = "getFlows"
  /\ ev.out = "returned"
  /\ Len(ev.sent) = 3
  /\ ev.sent[2].params.name = "openflow:2"
  /\ ev.sent[3].params.name = "openflow:1"
  /\ ev.result = <<[id |-> "f2"], [id |-> "f1"]>>

\* C30: the selection run of connect() starts only after the connect() of
\* every configured adapter has settled: while an adapter's connect() is
\* pending connect() has probed nothing, and while connect() probes, every
\* adapter's connect() has been invoked and has settled.
C30_SelectionAfterAllConnectsSettled ==
  /\ conn.pc = "connect" => conn.sel = NewSel
  /\ conn.pc = "select" => (conn.invoked = Upto(N) /\ conn.settled = Upto(N))

\* connect() probes the second adapter after the connect() of all three has
\* settled, the second one's with a failure
C30_Witness ==
  /\ conn.pc = "select"
  /\ N = 3
  /\ conn.errors = <<2>>
  /\ conn.sel.probed = <<1, 2>>

\* C31: an adapter is made active only after its connect() has succeeded; as
\* it shows when connect() returns: the adapter that connect() made active is
\* not one of the adapters whose connect() failed in that call.
C31_ActiveAdapterHasConnected ==
  (ev.op = "connect" /\ ev.out = "ok") =>
     \A i \in 1..Len(ev.errors) : ev.errors[i] # activeController

\* the state the constructor leaves; no step of the manager leads back to it
JustConstructed == Init

\* C32: from construction until connect() is first called no adapter is
\* probed and none is active; as it shows at the first step after
\* construction: that step leaves no probe in flight and the pointer at none.
C32_NothingProbedBeforeConnect ==
  [][JustConstructed => (ticks' = EmptyBag /\ activeController' = None)]_vars

\* C33: once disconnect() has completed the pointer stays none until
\* connect() is called again; as it shows at the step that follows the
\* completion while no connect() is in progress: that step leaves the
\* pointer at none.
C33_NoActivationAfterDisconnect ==
  [][(ev.op = "disconnect" /\ ev.out = "ok" /\ conn.pc = "idle")
        => activeController' = None]_vars

\* C34: a timer tick never ends with an uncaught error, whatever the probes
\* answer and however many adapters are configured.
C34_TickNeverEndsUncaught ==
  ev.op = "tick" => ev.out # "uncaught"

\* C35: one timer tick runs the selection at most once, whether or not the
\* selection finds a healthy adapter.
C35_OneSelectionPerTick ==
  /\ ev.op = "tick" => ev.runs <= 1
  /\ \A t \in BagToSet(ticks) : t.runs <= 1

\* C36: periodic health checking is running whenever an adapter is active,
\* after a disconnect() followed by a new connect() too; as it shows when
\* connect() returns with an adapter active: the interval is then armed.
C36_TimerRunsAfterConnect ==
  (ev.op = "connect" /\ ev.out = "ok") => TimerFires

\* C37: the pointer is written in two places only: a selection run sets it to
\* an adapter in the very step in which the healthCheck() of that adapter,
\* the last one the run probed, answered true; and a disconnect() that
\* completes sets it to none.
C37_PointerWrittenOnTrueProbeOrDisconnect ==
  [][activeController' # activeController =>
       \/ /\ activeController' = None
          /\ ev'.op = "disconnect"
          /\ ev'.out = "ok"
       \/ /\ activeController' # None
          /\ ev'.op \in {"connect", "tick"}
          /\ ev'.sel.healthy = {activeController'}
          /\ ev'.sel.probed # <<>>
          /\ ev'.sel.probed[Len(ev'.sel.probed)] = activeController']_vars

\* a timer tick moved the pointer from the first adapter to the second, whose
\* probe answered true
C37_Witness ==
  /\ ev.op = "tick"
  /\ ev.out = "selected"
  /\ ev.activeBefore = 1
  /\ activeController = 2
  /\ ev.sel.healthy = {2}
  /\ ev.sel.probed = <<1, 2>>

\* C38: when two selection runs overlap, the active adapter after both is the
\* one the later-started run chose; as it shows when a run of connect() that
\* began after the kept moment has just made its choice and, in the next
\* step, a timer callback ends the one run it had, begun before that moment:
\* the callback leaves the choice of connect() in place.
C38_LaterRunWins ==
  [][(/\ memo.kept
      /\ ev.op = "connect"
      /\ ev.out = "ok"
      /\ ev'.op = "tick"
      /\ ev'.out = "selected"
      /\ ev'.runs = 1)
        => activeController' = activeController]_vars

\* C39: when a disconnect() call has ended, by returning or by raising, the
\* interval is cleared and no adapter is active.
C39_DisconnectAlwaysClearsPointer ==
  ev.op = "disconnect" =>
     /\ failoverInterval = "cleared"
     /\ activeController = None

\* C40: the router adapter's applyQoSPolicy() stops at the first command that
\* fails and rolls nothing back: when it raises after k answers, the k-th
\* command is the one that failed and the k-1 before it succeeded, the
\* commands issued are exactly the first k of the policy's commands (the
\* queue-create command, then the packet-marking commands of the first k-1
\* ports; none after the failure and none that removes a rule), and the error
\* raised is the error of the k-th command; and it returns only when no
\* command failed.
C40_StopsAtFirstFailureNoRollback ==
  /\ (RouterApplied /\ ev.out = "raised" /\ ev.got # <<>>) =>
       LET k == Len(ev.got)
           ports == PortsOf(ev.arg)
       IN
       /\ ev.got[k].state = "failed"
       /\ \A i \in 1..(k - 1) : ev.got[i].state = "ok"
       /\ k <= 1 + Len(ports)
       /\ Len(ev.sent) = k
       /\ ev.sent[1].cmd = "/queue/simple/add"
       /\ \A i \in 2..k :
            /\ ev.sent[i].cmd = "/ip/firewall/mangle/add"
            /\ ParseInt(ev.sent[i].params.port) = [nan |-> FALSE, n |-> ports[i - 1]]
       /\ ev.result = ev.got[k].error
  /\ (RouterApplied /\ ev.out = "returned") =>
       \A i \in DOMAIN ev.got : ev.got[i].state = "ok"

\* the packet-marking command of the first of two ports fails: the command
\* of the second port is never issued
C40_Witness ==
  /\ RouterApplied
  /\ ev.out = "raised"
  /\ PortsOf(ev.arg) = <<80, 443>>
  /\ Len(ev.sent) = 2
  /\ ev.got[1].state = "ok"
  /\ ev.got[2].state = "failed"
  /\ ev.result = [text |-> "t1"]

====
